---- MODULE Spec2Model ----
(***************************************************************************)
(* A model of datajoint's Table (src/datajoint/table.py) and AutoMake      *)
(* (src/datajoint/automake.py): cascading delete and drop over the         *)
(* dependency graph, insert/insert1p, the guarded single-row update, and   *)
(* the connection's transaction discipline they share.                     *)
(*                                                                         *)
(* Table names are sequences of characters, so that the code's tests on    *)
(* names (isdigit, startswith) are computed and not assumed.  A row is a   *)
(* function from attribute names to values.                                *)
(***************************************************************************)
EXTENDS Integers, Sequences, FiniteSets, TLC

VARIABLES
    schema,          \* which dependency graph (index into Schemas) the database holds
    declared,        \* the tables that exist in the database (SHOW TABLES)
    db,              \* table name -> set of rows, as the session sees them
    in_transaction,  \* conn.in_transaction
    snapshot,        \* the contents a ROLLBACK restores (= db outside a transaction)
    held,            \* _settings of the table object of each table
    last             \* what the last call did: inputs, events on the connection, outcome

vars == <<schema, declared, db, in_transaction, snapshot, held, last>>

----------------------------------------------------------------------------
(* Bounds of the model. *)

\* attribute values are 1..MaxVal
MaxVal == 2
\* a data frame handed to insert1p has at most MaxFrame rows
MaxFrame == 2
\* a batch of rows handed to insert has at most MaxBatch rows
MaxBatch == 2
\* a row is inserted while the database holds fewer than MaxRows rows in all
MaxRows == 4
\* the same, where every flag and failure of a call is explored
MaxTxRows == 2

Vals == 1..MaxVal
\* the value of a column left to its default; no attribute value equals it
NULL == 0

----------------------------------------------------------------------------
(* Sequences and names. *)

Range(s) == {s[i] : i \in DOMAIN s}

Reverse(s) == [i \in 1..Len(s) |-> s[Len(s) + 1 - i]]

Digits == {"0", "1", "2", "3", "4", "5", "6", "7", "8", "9"}

\* str.isdigit(): non-empty and all characters digits
IsDigit(name) == Len(name) > 0 /\ \A i \in DOMAIN name : name[i] \in Digits

\* str.startswith(prefix)
StartsWith(name, prefix) ==
    /\ Len(prefix) <= Len(name)
    /\ \A i \in DOMAIN prefix : name[i] = prefix[i]

----------------------------------------------------------------------------
(* The dependency graphs.  A schema gives each table its heading (attribute *)
(* names in order, primary key) and lists the foreign keys; an aliased      *)
(* (renamed) foreign key passes through a projection node with a numeric    *)
(* name.                                                                    *)

tA == <<"a">>
tB == <<"b">>
tC == <<"c">>
tE == <<"e">>
tF == <<"f">>
tX == <<"x">>
tY == <<"y">>
tZ == <<"z">>
tM == <<"m">>
tN == <<"n">>
tK == <<"_", "_", "k">>
tComp == <<"_", "_", "c">>
tMP == <<"m", "_", "_", "p">>
tMQ == <<"m", "_", "_", "q">>
tU == <<"u">>
tT == <<"_", "_", "t">>
tTP == <<"_", "_", "t", "_", "_", "p">>
tW == <<"_", "_", "w">>
n1 == <<"1">>
NoAlias == <<>>

Heading(names, pk) == [names |-> names, primary_key |-> pk]
Fk(child, parent, attr_map, alias) ==
    [child |-> child, parent |-> parent, attr_map |-> attr_map, alias |-> alias]

\* a(id) with a primary child b(id), a secondary child c(c | id), and e(c) below c
SchemaSecondary ==
    [heading |-> (tA :> Heading(<<"id">>, <<"id">>))
              @@ (tB :> Heading(<<"id">>, <<"id">>))
              @@ (tC :> Heading(<<"c", "id">>, <<"c">>))
              @@ (tE :> Heading(<<"c">>, <<"c">>)),
     fks |-> << Fk(tB, tA, [id |-> "id"], NoAlias),
                Fk(tC, tA, [id |-> "id"], NoAlias),
                Fk(tE, tC, [c |-> "c"], NoAlias) >>]

\* a diamond: a(id) -> b(id), a -> 1 -> f(src) renamed, and x(id, src) below both
SchemaDiamond ==
    [heading |-> (tA :> Heading(<<"id">>, <<"id">>))
              @@ (tB :> Heading(<<"id">>, <<"id">>))
              @@ (tF :> Heading(<<"src">>, <<"src">>))
              @@ (tX :> Heading(<<"id", "src">>, <<"id", "src">>)),
     fks |-> << Fk(tB, tA, [id |-> "id"], NoAlias),
                Fk(tF, tA, [src |-> "id"], n1),
                Fk(tX, tB, [id |-> "id"], NoAlias),
                Fk(tX, tF, [src |-> "src"], NoAlias) >>]

\* a renamed secondary foreign key: a(id) -> 1 -> y(y | ref), and z(y) below y
SchemaRenamed ==
    [heading |-> (tA :> Heading(<<"id">>, <<"id">>))
              @@ (tY :> Heading(<<"y", "ref">>, <<"y">>))
              @@ (tZ :> Heading(<<"y">>, <<"y">>)),
     fks |-> << Fk(tY, tA, [ref |-> "id"], n1),
                Fk(tZ, tY, [y |-> "y"], NoAlias) >>]

\* manual m(id | v) with a computed child __c(id), a manual child n(id) and the
\* computed __k(id) below n
SchemaComputed ==
    [heading |-> (tM :> Heading(<<"id", "v">>, <<"id">>))
              @@ (tN :> Heading(<<"id">>, <<"id">>))
              @@ (tK :> Heading(<<"id">>, <<"id">>))
              @@ (tComp :> Heading(<<"id">>, <<"id">>)),
     fks |-> << Fk(tN, tM, [id |-> "id"], NoAlias),
                Fk(tComp, tM, [id |-> "id"], NoAlias),
                Fk(tK, tN, [id |-> "id"], NoAlias) >>]

\* a master m(id) with its part tables m__p(id, p) and m__q(id, q)
SchemaParts ==
    [heading |-> (tM :> Heading(<<"id">>, <<"id">>))
              @@ (tMP :> Heading(<<"id", "p">>, <<"id", "p">>))
              @@ (tMQ :> Heading(<<"id", "q">>, <<"id", "q">>)),
     fks |-> << Fk(tMP, tM, [id |-> "id"], NoAlias),
                Fk(tMQ, tM, [id |-> "id"], NoAlias) >>]

\* upstream u(id | v) with the AutoMake target __t(id, settings_name | r) and
\* its part table __t__p(id, settings_name, p)
SchemaMake ==
    [heading |-> (tU :> Heading(<<"id", "v">>, <<"id">>))
              @@ (tT :> Heading(<<"id", "settings_name", "r">>, <<"id", "settings_name">>))
              @@ (tTP :> Heading(<<"id", "settings_name", "p">>, <<"id", "settings_name", "p">>)),
     fks |-> << Fk(tT, tU, [id |-> "id"], NoAlias),
                Fk(tTP, tT, [id |-> "id", settings_name |-> "settings_name"], NoAlias) >>]

\* upstream u(id | v) with the AutoMake target __w(id, settings_name | r), which
\* has no part table
SchemaMakeFlat ==
    [heading |-> (tU :> Heading(<<"id", "v">>, <<"id">>))
              @@ (tW :> Heading(<<"id", "settings_name", "r">>, <<"id", "settings_name">>)),
     fks |-> << Fk(tW, tU, [id |-> "id"], NoAlias) >>]

Schemas == << SchemaSecondary, SchemaDiamond, SchemaRenamed, SchemaComputed, SchemaParts,
              SchemaMake, SchemaMakeFlat >>

DeleteSchemas == {1, 2, 3}
UpdateSchemas == {4}
InsertSchemas == {5}
MakeSchemas == {6, 7}

Sch == Schemas[schema]
Tables == DOMAIN Sch.heading
Names(t) == Range(Sch.heading[t].names)
PrimaryKey(t) == Range(Sch.heading[t].primary_key)

\* the foreign keys between tables that exist: the graph is loaded from the database
LoadedFks == SelectSeq(Sch.fks, LAMBDA fk : fk.child \in declared /\ fk.parent \in declared)

IsPrimaryFk(fk) == DOMAIN fk.attr_map \subseteq PrimaryKey(fk.child)
IsAliasedFk(fk) == fk.alias # NoAlias

Edge(from, to, fk) ==
    [from |-> from, to |-> to, attr_map |-> fk.attr_map,
     primary |-> IsPrimaryFk(fk), aliased |-> IsAliasedFk(fk)]

\* the edges a foreign key contributes: parent -> child, or parent -> alias -> child
FkEdges(fk) ==
    IF IsAliasedFk(fk)
    THEN << Edge(fk.parent, fk.alias, fk), Edge(fk.alias, fk.child, fk) >>
    ELSE << Edge(fk.parent, fk.child, fk) >>

RECURSIVE EdgesOf(_)
EdgesOf(fks) == IF fks = <<>> THEN <<>> ELSE FkEdges(Head(fks)) \o EdgesOf(Tail(fks))

\* graph.load(): the edges of the loaded graph, in catalog order
Edges == EdgesOf(LoadedFks)

Nodes == declared \cup {e.from : e \in Range(Edges)} \cup {e.to : e \in Range(Edges)}

\* graph.children(name, primary): the edges out of name whose primary flag is in
\* `primary` (AnyEdge when the code passes no filter)
AnyEdge == {TRUE, FALSE}
Children(name, primary) ==
    SelectSeq(Edges, LAMBDA e : e.from = name /\ e.primary \in primary)

\* graph.parents(name)
Parents(name) == SelectSeq(Edges, LAMBDA e : e.to = name)

RECURSIVE Reach(_, _)
Reach(frontier, seen) ==
    LET next == {e.to : e \in {e \in Range(Edges) : e.from \in frontier}} \ seen
    IN  IF next = {} THEN seen ELSE Reach(next, seen \cup next)

\* the strict descendants of a node
Below(name) == Reach({name}, {})

\* graph.descendants(name): name first, then its descendants in a topological
\* order; every such order is a possible answer
Descendants(name) ==
    LET S == Below(name)
        n == Cardinality(S)
        topo(f) == /\ \A i, j \in 1..n : i # j => f[i] # f[j]
                   /\ \A e \in Range(Edges) :
                        (e.from \in S /\ e.to \in S) =>
                            \E i, j \in 1..n : i < j /\ f[i] = e.from /\ f[j] = e.to
    IN  { <<name>> \o f : f \in {g \in [1..n -> S] : topo(g)} }

----------------------------------------------------------------------------
(* Relational operators of the query layer, on sets of rows. *)

\* proj(): the primary key of the table; proj(**named): with the attributes
\* named[new] renamed to new
Proj(t, rows, named) ==
    LET olds == {named[k] : k \in DOMAIN named}
        keep == PrimaryKey(t) \ olds
    IN  { [a \in keep \cup DOMAIN named |-> IF a \in DOMAIN named THEN r[named[a]] ELSE r[a]]
          : r \in rows }

NoRename == <<>>

\* rowsA & rowsB: the rows of A that agree with some row of B on the common attributes
Semijoin(rowsA, rowsB) ==
    { r \in rowsA : \E s \in rowsB : \A a \in DOMAIN r \cap DOMAIN s : r[a] = s[a] }

\* a row satisfies a mapping condition; attributes outside the heading are ignored
MatchesCond(r, cond) == \A a \in DOMAIN cond \cap DOMAIN r : r[a] = cond[a]

\* a row satisfies self.restriction, an AND-list of mapping conditions
MatchesAll(r, restriction) == \A i \in DOMAIN restriction : MatchesCond(r, restriction[i])

Restricted(rows, restriction) == { r \in rows : MatchesAll(r, restriction) }

----------------------------------------------------------------------------
(* The database's integrity rules. *)

\* row c of fk.child references row p of fk.parent
References(fk, c, p) == \A a \in DOMAIN fk.attr_map : c[a] = p[fk.attr_map[a]]

\* some row of a child table in contents d references one of `rows` of table t
StillReferenced(d, t, rows) ==
    \E i \in DOMAIN LoadedFks :
        /\ LoadedFks[i].parent = t
        /\ \E c \in d[LoadedFks[i].child], p \in rows : References(LoadedFks[i], c, p)

\* row r of table t has the same primary key as a stored row
Duplicate(d, t, r) == \E s \in d[t] : \A a \in PrimaryKey(t) : s[a] = r[a]

\* every foreign key of row r of table t finds its parent row
ParentsPresent(d, t, r) ==
    \A i \in DOMAIN LoadedFks :
        LoadedFks[i].child = t =>
            \E p \in d[LoadedFks[i].parent] : References(LoadedFks[i], r, p)

TotalRows(d) == Cardinality(UNION {{t} \X d[t] : t \in Tables})

----------------------------------------------------------------------------
(* The connection: a session is the contents it sees, the in-transaction   *)
(* flag, the contents a rollback restores, and the transaction statements  *)
(* issued on it so far.                                                    *)

Session(d, tx, snap, events) ==
    [db |-> d, in_transaction |-> tx, snapshot |-> snap, events |-> events]

Event(op, table) == [op |-> op, table |-> table]

\* a step of a call, recorded on the session
Log(s, op, table) == [s EXCEPT !.events = Append(@, Event(op, table))]

Count(events, op) == Cardinality({i \in DOMAIN events : events[i].op = op})

\* conn.start_transaction()
StartTransaction(s) ==
    [Log(s, "start", <<>>) EXCEPT !.in_transaction = TRUE, !.snapshot = s.db]

\* conn.commit_transaction()
CommitTransaction(s) ==
    [Log(s, "commit", <<>>) EXCEPT !.in_transaction = FALSE, !.snapshot = s.db]

\* conn.cancel_transaction(): ROLLBACK restores the contents at the transaction's start
CancelTransaction(s) ==
    [Log(s, "cancel", <<>>) EXCEPT
        !.in_transaction = FALSE,
        !.db = IF s.in_transaction THEN s.snapshot ELSE s.db,
        !.snapshot = IF s.in_transaction THEN s.snapshot ELSE s.db]

\* a statement that changed the contents to d; outside a transaction it is
\* committed at once
Written(s, d) ==
    [s EXCEPT !.db = d, !.snapshot = IF s.in_transaction THEN s.snapshot ELSE d]

Here == Session(db, in_transaction, snapshot, <<>>)


----------------------------------------------------------------------------
(* Table._delete and Table.delete: the cascading delete. *)

\* the entries of restrictions[name]: self.restriction, a FreeTable of the
\* delete list, or the _RenameMap of a projection node
CondTerm(restriction) == [kind |-> "cond", restriction |-> restriction]
TableTerm(name) == [kind |-> "table", name |-> name]
RenameTerm(edge) == [kind |-> "rename", name |-> edge.from, attr_map |-> edge.attr_map]

\* delete_list[name]: the _RenameMap of the first parent edge for a projection
\* node, a FreeTable otherwise
DeleteListEntry(name) ==
    IF IsDigit(name) THEN RenameTerm(Parents(name)[1]) ELSE TableTerm(name)

\* as RestrictByMe, without the non-primary dependents
RestrictByMeNoSecondary(self, restriction, delete_list) ==
    (IF restriction # <<>> THEN {self} ELSE {})
    \cup {name \in Range(delete_list) : IsDigit(name)}

\* restrict_by_me: self when restricted, all renamed nodes, all non-primary dependents
RestrictByMe(self, restriction, delete_list) ==
    (IF restriction # <<>> THEN {self} ELSE {})
    \cup {name \in Range(delete_list) : IsDigit(name)}
    \cup UNION { {e.to : e \in Range(Children(delete_list[i], {FALSE}))}
                 : i \in DOMAIN delete_list }

\* restrictions[dep].extend(terms) for every dep of `deps` in turn
RECURSIVE ExtendEach(_, _, _)
ExtendEach(restrictions, deps, terms) ==
    IF deps = <<>> THEN restrictions
    ELSE ExtendEach([restrictions EXCEPT ![Head(deps).to] = @ \o terms], Tail(deps), terms)

\* the terms a node hands to its children: itself if it restricts by itself,
\* its own restrictions otherwise
Handed(name, restrict_by_me, restrictions) ==
    IF name \in restrict_by_me THEN << DeleteListEntry(name) >> ELSE restrictions[name]

\* the loop "compile restriction lists", from position i of the delete list on
RECURSIVE CompileFrom(_, _, _, _)
CompileFrom(delete_list, i, restrict_by_me, restrictions) ==
    IF i > Len(delete_list) THEN restrictions
    ELSE CompileFrom(delete_list, i + 1, restrict_by_me,
            ExtendEach(restrictions, Children(delete_list[i], AnyEdge),
                       Handed(delete_list[i], restrict_by_me, restrictions)))

\* as Restrictions, with self's own restriction left out of its list
RestrictionsWithoutOwn(self, restriction, delete_list) ==
    CompileFrom(delete_list, 1, RestrictByMe(self, restriction, delete_list),
        [name \in Range(delete_list) |-> <<>>])

\* restrictions after the planning pass of _delete
Restrictions(self, restriction, delete_list) ==
    CompileFrom(delete_list, 1, RestrictByMe(self, restriction, delete_list),
        [name \in Range(delete_list) |->
            IF name = self /\ restriction # <<>> THEN << CondTerm(restriction) >> ELSE <<>>])

\* as Selected, with the restrictions never applied
SelectedUnrestricted(name, restrictions, d) == d[name]

\* the rows of `name` its restriction selects in contents d ("apply restrictions"):
\* an empty list selects every row; a term that is a table selects by that
\* table as restricted itself
RECURSIVE Selected(_, _, _)
Selected(name, restrictions, d) ==
    LET TermRows(term) ==
            IF term.kind = "cond" THEN Restricted(d[name], term.restriction)
            ELSE IF term.kind = "table"
            THEN Semijoin(d[name], Proj(term.name, Selected(term.name, restrictions, d), NoRename))
            ELSE Semijoin(d[name], Proj(term.name, Selected(term.name, restrictions, d), term.attr_map))
    IN  IF restrictions[name] = <<>> THEN d[name]
        ELSE UNION { TermRows(restrictions[name][i]) : i \in DOMAIN restrictions[name] }

\* the delete loop over `todo` (the reversed delete list); run is
\* [s, total, failed, items, step]; fail_at is the delete_quick call that the
\* database refuses for a reason of its own (0: none)
RECURSIVE DeleteLoop(_, _, _, _)
DeleteLoop(todo, restrictions, fail_at, run) ==
    IF todo = <<>> \/ run.failed THEN run
    ELSE IF IsDigit(Head(todo)) THEN DeleteLoop(Tail(todo), restrictions, fail_at, run)
    ELSE
        LET name == Head(todo)
            rows == Selected(name, restrictions, run.s.db)
            refused == run.step + 1 = fail_at \/ StillReferenced(run.s.db, name, rows)
            after == Written(Log(run.s, "delete", name),
                             [run.s.db EXCEPT ![name] = @ \ rows])
        IN  IF refused
            THEN [run EXCEPT !.failed = TRUE, !.s = Log(run.s, "refused", name)]
            ELSE DeleteLoop(Tail(todo), restrictions, fail_at,
                    [run EXCEPT !.s = after,
                                !.total = @ + Cardinality(rows),
                                !.step = @ + 1,
                                !.items = IF rows # {} THEN Append(@, name) ELSE @])

\* as DeleteRun, with the transaction started before the graph is loaded
DeleteRunStartsFirst(s0, restrictions, delete_list, fail_at) ==
    LET started == IF s0.in_transaction THEN s0 ELSE StartTransaction(s0)
    IN  DeleteLoop(Reverse(delete_list), restrictions, fail_at,
                   [s |-> Log(Log(started, "load", <<>>), "plan", <<>>),
                    total |-> 0, failed |-> FALSE, items |-> <<>>, step |-> 0])

\* as DeleteRun, deleting from the tables in the order of the delete list
DeleteRunForward(s0, restrictions, delete_list, fail_at) ==
    LET planned == Log(Log(s0, "load", <<>>), "plan", <<>>)
        started == IF s0.in_transaction THEN planned ELSE StartTransaction(planned)
    IN  DeleteLoop(delete_list, restrictions, fail_at,
                   [s |-> started, total |-> 0, failed |-> FALSE, items |-> <<>>, step |-> 0])

\* The transaction and the delete loop of _delete: start a transaction unless
\* one is open, then delete from the tables in reverse order
DeleteRun(s0, restrictions, delete_list, fail_at) ==
    LET planned == Log(Log(s0, "load", <<>>), "plan", <<>>)
        started == IF s0.in_transaction THEN planned ELSE StartTransaction(planned)
    IN  DeleteLoop(Reverse(delete_list), restrictions, fail_at,
                   [s |-> started, total |-> 0, failed |-> FALSE, items |-> <<>>, step |-> 0])

\* as DeleteHelper, without the refusal of a safemode delete inside a transaction
DeleteHelperNoRefusal(s0, safe, verbose, force, restrictions, run) ==
    LET about == (IF safe THEN << "About to delete" >> ELSE <<>>) \o
                 (IF verbose \/ safe THEN run.items ELSE <<>>)
    IN  [s |-> IF run.failed /\ ~s0.in_transaction THEN CancelTransaction(run.s) ELSE run.s,
         raised |-> run.failed, message |-> about, commit_transaction |-> FALSE,
         total |-> run.total, restrictions |-> restrictions]

\* as DeleteHelper, with a failed delete loop leaving the transaction as it is
DeleteHelperNoCancel(s0, safe, verbose, force, restrictions, run) ==
    IF s0.in_transaction /\ safe
    THEN [s |-> s0, raised |-> TRUE, message |-> <<>>, commit_transaction |-> FALSE,
          total |-> 0, restrictions |-> <<>>]
    ELSE [s |-> IF run.total = 0 /\ ~run.failed /\ ~s0.in_transaction
                THEN CancelTransaction(run.s) ELSE run.s,
          raised |-> run.failed,
          message |-> IF run.total = 0 THEN << "Nothing to delete" >> ELSE <<>>,
          commit_transaction |-> ~run.failed /\ run.total # 0 /\ ~s0.in_transaction /\ (~safe \/ force),
          total |-> run.total, restrictions |-> restrictions]

\* Table._delete(verbose, force), given the restrictions it compiles and the run
\* of its delete loop: the session it leaves, whether it raised, the message and
\* commit_transaction
DeleteHelper(s0, safe, verbose, force, restrictions, run) ==
    LET already_in_transaction == s0.in_transaction
        about == (IF safe THEN << "About to delete" >> ELSE <<>>) \o
                 (IF verbose \/ safe THEN run.items ELSE <<>>)
        Result(s, raised, message, commit) ==
            [s |-> s, raised |-> raised, message |-> message, commit_transaction |-> commit,
             total |-> run.total, restrictions |-> restrictions]
    IN  IF already_in_transaction /\ safe
        THEN [s |-> s0, raised |-> TRUE, message |-> <<>>, commit_transaction |-> FALSE,
              total |-> 0, restrictions |-> <<>>]
        ELSE IF run.failed
        THEN Result(IF already_in_transaction THEN run.s ELSE CancelTransaction(run.s),
                    TRUE, <<>>, FALSE)
        ELSE IF run.total = 0
        THEN Result(IF already_in_transaction THEN run.s ELSE CancelTransaction(run.s),
                    FALSE, << "Nothing to delete" >>, FALSE)
        ELSE IF already_in_transaction
        THEN Result(run.s, FALSE, IF verbose THEN << "pending" >> ELSE about, FALSE)
        ELSE Result(run.s, FALSE, about, ~safe \/ force)

\* as DeleteCall, committing whatever the answer
DeleteCallAlwaysCommits(s0, safe, verbose, force, answer, restrictions, run) ==
    LET h == DeleteHelper(s0, safe, verbose, force, restrictions, run)
    IN  IF h.raised THEN h ELSE [h EXCEPT !.s = CommitTransaction(h.s)]

\* as DeleteCall, returning without a cancel when the user declines
DeleteCallDeclineReturns(s0, safe, verbose, force, answer, restrictions, run) ==
    LET h == DeleteHelper(s0, safe, verbose, force, restrictions, run)
    IN  IF h.raised THEN h
        ELSE IF h.commit_transaction \/ answer = "yes"
        THEN [h EXCEPT !.s = CommitTransaction(h.s)]
        ELSE h

\* Table.delete(verbose, force): answer is the user's reply to "Proceed?"
DeleteCall(s0, safe, verbose, force, answer, restrictions, run) ==
    LET h == DeleteHelper(s0, safe, verbose, force, restrictions, run)
    IN  IF h.raised THEN h
        ELSE IF h.commit_transaction \/ answer = "yes"
        THEN [h EXCEPT !.s = CommitTransaction(h.s)]
        ELSE [h EXCEPT !.s = CancelTransaction(h.s)]

----------------------------------------------------------------------------
(* Table.insert, Table.insert1 and Table.insert1p.  A row to insert is a    *)
(* mapping from attribute names to values.                                 *)

\* a row cut to the columns `columns`
Project(row, columns) == [a \in columns |-> row[a]]

\* the database accepts the row: no duplicate key, every parent row present
Insertable(d, t, row) == ~Duplicate(d, t, row) /\ ParentsPresent(d, t, row)

\* the stored row of a mapping: an attribute without a value takes the column's
\* default
Stored(t, row) == [a \in Names(t) |-> IF a \in DOMAIN row THEN row[a] ELSE NULL]

\* a primary-key attribute has no default
Storable(t, row) == \A a \in PrimaryKey(t) : a \in DOMAIN row /\ row[a] # NULL

\* one INSERT statement with the rows `rows`: all of them are written or none
RECURSIVE InsertAll(_, _, _)
InsertAll(d, t, rows) ==
    IF rows = <<>> THEN [d |-> d, ok |-> TRUE]
    ELSE IF Storable(t, Head(rows)) /\ Insertable(d, t, Stored(t, Head(rows)))
    THEN InsertAll([d EXCEPT ![t] = @ \cup {Stored(t, Head(rows))}], t, Tail(rows))
    ELSE [d |-> d, ok |-> FALSE]

\* _check_fields(fields, field_list, ignore_extra_fields): TRUE when it raises
CheckFieldsRaises(t, fields, field_list, ignore_extra_fields) ==
    IF field_list = <<>>
    THEN ~ignore_extra_fields /\ \E f \in fields : f \notin Names(t)
    ELSE Range(field_list) # fields \cap Names(t)

\* _make_row_to_insert(row, ignore_extra_fields, field_list) for a mapping: the
\* names of the attributes it keeps, in heading order; an empty field_list
\* stands for None
RowNames(t, row) ==
    SelectSeq(Sch.heading[t].names, LAMBDA name : name \in DOMAIN row)

MakeRowRaises(t, row, ignore_extra_fields, field_list) ==
    \/ CheckFieldsRaises(t, DOMAIN row, field_list, ignore_extra_fields)
    \/ RowNames(t, row) = <<>>

\* the loop of insert over the rows: TRUE when some row raises; the first row
\* sets field_list
RECURSIVE RowsRaise(_, _, _, _)
RowsRaise(t, rows, ignore_extra_fields, field_list) ==
    IF rows = <<>> THEN FALSE
    ELSE \/ MakeRowRaises(t, Head(rows), ignore_extra_fields, field_list)
         \/ RowsRaise(t, Tail(rows), ignore_extra_fields,
                      IF field_list = <<>> THEN RowNames(t, Head(rows)) ELSE field_list)

\* the row written for a mapping: its attributes that are in the heading
Kept(t, row) == [a \in DOMAIN row \cap Names(t) |-> row[a]]

\* as InsertCall, without the check of the insert permission
InsertCallUnguarded(s, t, rows, ignore_extra_fields, allow_direct_insert, allow_insert, fails) ==
    LET written == InsertAll(s.db, t, [i \in DOMAIN rows |-> Kept(t, rows[i])])
    IN  IF RowsRaise(t, rows, ignore_extra_fields, <<>>)
        THEN [s |-> s, raised |-> TRUE]
        ELSE IF rows = <<>>
        THEN [s |-> s, raised |-> FALSE]
        ELSE IF fails \/ ~written.ok
        THEN [s |-> Log(s, "refused", t), raised |-> TRUE]
        ELSE [s |-> Written(Log(s, "insert", t), written.d), raised |-> FALSE]

\* Table.insert(rows, ignore_extra_fields, allow_direct_insert) on a table whose
\* _allow_insert is allow_insert; fails says the database refuses the statement
\* for a reason of its own
InsertCall(s, t, rows, ignore_extra_fields, allow_direct_insert, allow_insert, fails) ==
    LET written == InsertAll(s.db, t, [i \in DOMAIN rows |-> Kept(t, rows[i])])
    IN  IF ~allow_direct_insert /\ ~allow_insert
        THEN [s |-> s, raised |-> TRUE]
        ELSE IF RowsRaise(t, rows, ignore_extra_fields, <<>>)
        THEN [s |-> s, raised |-> TRUE]
        ELSE IF rows = <<>>
        THEN [s |-> s, raised |-> FALSE]
        ELSE IF fails \/ ~written.ok
        THEN [s |-> Log(s, "refused", t), raised |-> TRUE]
        ELSE [s |-> Written(Log(s, "insert", t), written.d), raised |-> FALSE]

\* the statement INSERT INTO t (fields) SELECT fields FROM source: the rows it
\* would store, and whether the database accepts all of them
SelectedInto(d, t, source, fields) ==
    LET rows == { Stored(t, Project(r, fields)) : r \in d[source] }
    IN  [rows |-> rows,
         ok |-> /\ fields # {}
                /\ PrimaryKey(t) \subseteq fields
                /\ \A r \in rows : Insertable(d, t, r)
                /\ \A r1, r2 \in rows : Project(r1, PrimaryKey(t)) = Project(r2, PrimaryKey(t)) => r1 = r2]

\* Table.insert(rows, ...) with rows a query expression: here the table `source`
InsertFromQueryCall(s, t, source, ignore_extra_fields, allow_direct_insert, allow_insert) ==
    LET fields == Names(source) \cap Names(t)
        selected == SelectedInto(s.db, t, source, fields)
    IN  IF ~allow_direct_insert /\ ~allow_insert
        THEN [s |-> s, raised |-> TRUE]
        ELSE IF ~ignore_extra_fields /\ ~(Names(source) \subseteq Names(t))
        THEN [s |-> s, raised |-> TRUE]
        ELSE IF ~selected.ok
        THEN [s |-> Log(s, "refused", t), raised |-> TRUE]
        ELSE [s |-> Written(Log(s, "insert", t), [s.db EXCEPT ![t] = @ \cup selected.rows]),
              raised |-> FALSE]

\* Table.insert1(row)
Insert1Call(s, t, row, allow_insert, fails) ==
    InsertCall(s, t, << row >>, FALSE, FALSE, allow_insert, fails)

\* self.part_tables: the children of self, through a projection node if renamed,
\* whose name starts with self's name and "__"
ResolvedChild(edge) ==
    IF edge.aliased THEN Children(edge.to, AnyEdge)[1].to ELSE edge.to

PartTables(self) ==
    LET kids == Children(self, AnyEdge)
        names == [i \in DOMAIN kids |-> ResolvedChild(kids[i])]
    IN  SelectSeq(names, LAMBDA name : StartsWith(name, self \o << "_", "_" >>))

\* DataFrame.drop_duplicates(key): the first row of every key value
DropDuplicates(frame, key) ==
    SelectSeq([i \in DOMAIN frame |-> [row |-> frame[i], first |->
                  \A j \in 1..(i - 1) : Project(frame[j], key) # Project(frame[i], key)]],
              LAMBDA x : x.first)

\* the loop of helper() over the part tables `parts`; run is [s, raised, step]
RECURSIVE InsertParts(_, _, _, _, _)
InsertParts(parts, frame, columns, fail_at, run) ==
    IF parts = <<>> \/ run.raised THEN run
    ELSE
        LET part == Head(parts)
            part_columns == Names(part) \cap columns
            unique == DropDuplicates([i \in DOMAIN frame |-> Project(frame[i], part_columns)],
                                     PrimaryKey(part))
            part_input == [i \in DOMAIN unique |-> unique[i].row]
            r == InsertCall(run.s, part, part_input, FALSE, FALSE, TRUE, run.step + 1 = fail_at)
        IN  IF part_columns = {} THEN InsertParts(Tail(parts), frame, columns, fail_at, run)
            ELSE IF ~(PrimaryKey(part) \subseteq part_columns)
            THEN [run EXCEPT !.raised = TRUE]
            ELSE InsertParts(Tail(parts), frame, columns, fail_at,
                             [s |-> r.s, raised |-> r.raised, step |-> run.step + 1])

\* helper() of insert1p: insert into self, then into the part tables; fail_at
\* is the write the database refuses for a reason of its own (0: none);
\* allow_insert is _allow_insert of self
InsertHelper(s, self, master_input, frame, columns, allow_insert, fail_at) ==
    LET m == Insert1Call(s, self, master_input, allow_insert, fail_at = 1)
    IN  InsertParts(PartTables(self), frame, columns, fail_at,
                    [s |-> m.s, raised |-> m.raised, step |-> 1])

\* `with conn.transaction: body`: the transaction is started on entry; on exit
\* it is committed, or cancelled when the body raised (the exception goes on)
ExitTransaction(r) ==
    [r EXCEPT !.s = IF r.raised THEN CancelTransaction(r.s) ELSE CommitTransaction(r.s)]

\* as Insert1pCall, with helper() run outside any transaction context
Insert1pCallNoTransaction(s, self, is_frame, frame, columns, allow_insert, fail_at) ==
    LET master_columns == Names(self) \cap columns
        keys == { Project(frame[i], PrimaryKey(self)) : i \in DOMAIN frame }
    IN  IF ~is_frame \/ ~(PrimaryKey(self) \subseteq master_columns) \/ Cardinality(keys) # 1
        THEN [s |-> s, raised |-> TRUE, step |-> 0]
        ELSE InsertHelper(s, self, Project(frame[1], master_columns), frame, columns, allow_insert, fail_at)

\* as Insert1pCall, with the transaction context entered whether or not a
\* transaction is open
Insert1pCallAlwaysTransaction(s, self, is_frame, frame, columns, allow_insert, fail_at) ==
    LET master_columns == Names(self) \cap columns
        keys == { Project(frame[i], PrimaryKey(self)) : i \in DOMAIN frame }
        Helper(c) == InsertHelper(c, self, Project(frame[1], master_columns), frame, columns, allow_insert, fail_at)
    IN  IF ~is_frame \/ ~(PrimaryKey(self) \subseteq master_columns) \/ Cardinality(keys) # 1
        THEN [s |-> s, raised |-> TRUE, step |-> 0]
        ELSE ExitTransaction(Helper(StartTransaction(s)))

\* Table.insert1p(rows): frame is the rows as a data frame with columns
\* `columns`; is_frame is FALSE for an argument of another type
Insert1pCall(s, self, is_frame, frame, columns, allow_insert, fail_at) ==
    LET master_columns == Names(self) \cap columns
        keys == { Project(frame[i], PrimaryKey(self)) : i \in DOMAIN frame }
        master_input == Project(frame[1], master_columns)
        Helper(c) == InsertHelper(c, self, master_input, frame, columns, allow_insert, fail_at)
    IN  IF ~is_frame THEN [s |-> s, raised |-> TRUE, step |-> 0]
        ELSE IF ~(PrimaryKey(self) \subseteq master_columns)
        THEN [s |-> s, raised |-> TRUE, step |-> 0]
        ELSE IF Cardinality(keys) # 1 THEN [s |-> s, raised |-> TRUE, step |-> 0]
        ELSE IF s.in_transaction THEN Helper(s)
        ELSE ExitTransaction(Helper(StartTransaction(s)))

----------------------------------------------------------------------------
(* Table._update, Table._check_downstream_autopopulated, Table.save_update *)
(* and Table.save_updates.  The target is a table and the rows its         *)
(* restriction selects; `error` is the guard policy.                       *)

Policies == {"raise", "warn", "ignore"}

\* the name prefixes of auto-populated tables
AutopopulatedPrefixes == { <<"_", "_">>, <<"_">>, <<"_", "#">>, <<"#", "_">> }

IsAutopopulated(child_name) == \E prefix \in AutopopulatedPrefixes : StartsWith(child_name, prefix)

\* the edge to the child behind a projection node
ResolvedEdge(edge) == IF edge.aliased THEN Children(edge.to, AnyEdge)[1] ELSE edge

\* the renames of the guard: the child's attributes that carry a primary-key
\* attribute of self under another name
GuardAttrMap(self, edge) ==
    [map_to \in {a \in DOMAIN edge.attr_map :
                    edge.attr_map[a] \in PrimaryKey(self) /\ a # edge.attr_map[a]}
        |-> edge.attr_map[map_to]]

\* as OnDependent, with the update let through after the warning
OnDependentWarnLetsThrough(error, warnings) ==
    IF error = "ignore" THEN [truth |-> FALSE, raised |-> FALSE, warnings |-> warnings]
    ELSE IF error = "warn" THEN [truth |-> TRUE, raised |-> FALSE, warnings |-> warnings + 1]
    ELSE [truth |-> FALSE, raised |-> TRUE, warnings |-> warnings]

\* an auto-populated child holds dependent rows: pass, warn or raise, and the
\* guard answers False
OnDependent(error, warnings) ==
    IF error = "ignore" THEN [truth |-> FALSE, raised |-> FALSE, warnings |-> warnings]
    ELSE IF error = "warn" THEN [truth |-> FALSE, raised |-> FALSE, warnings |-> warnings + 1]
    ELSE [truth |-> FALSE, raised |-> TRUE, warnings |-> warnings]

\* the rows of the child that depend on rows of self
RestrictedChild(d, self, rows, child) ==
    Semijoin(d[child.to], Proj(self, rows, GuardAttrMap(self, child)))

\* _check_downstream_autopopulated(reload, error) on table self restricted to
\* rows: the loop over the remaining children; what the recursive call
\* returns is dropped, its warnings and its exception are not
RECURSIVE CheckChildren(_, _, _, _, _, _)
RECURSIVE CheckChild(_, _, _, _, _, _, _)
CheckChildren(d, self, rows, error, children, warnings) ==
    IF children = <<>> THEN [truth |-> TRUE, raised |-> FALSE, warnings |-> warnings]
    ELSE CheckChild(d, self, rows, error, children, ResolvedEdge(Head(children)),
                    CheckChildren(d, ResolvedEdge(Head(children)).to,
                                  RestrictedChild(d, self, rows, ResolvedEdge(Head(children))),
                                  error,
                                  Children(ResolvedEdge(Head(children)).to, AnyEdge),
                                  warnings))

\* the rest of the loop body once the recursive call on the child has answered
CheckChild(d, self, rows, error, children, child, below) ==
    IF below.raised THEN below
    ELSE IF IsAutopopulated(child.to) /\ RestrictedChild(d, self, rows, child) # {}
    THEN OnDependent(error, below.warnings)
    ELSE CheckChildren(d, self, rows, error, Tail(children), below.warnings)

CheckDownstreamAutopopulated(d, self, rows, error) ==
    CheckChildren(d, self, rows, error, Children(self, AnyEdge), 0)

\* the outcome of an update call
Outcome(s, raised, kind, warnings) ==
    [s |-> s, raised |-> raised, kind |-> kind, warnings |-> warnings]

\* the UPDATE statement: the selected rows take the new values
Updated(s, t, rows, values) ==
    Written(Log(s, "update", t),
            [s.db EXCEPT ![t] = (@ \ rows) \cup
                { [a \in Names(t) |-> IF a \in DOMAIN values THEN values[a] ELSE r[a]] : r \in rows }])

\* Table._update(attrname, value)
UpdateCall(s, t, rows, attrname, value, warnings) ==
    IF Cardinality(rows) # 1 THEN Outcome(s, TRUE, "usage", warnings)
    ELSE IF attrname \notin Names(t) THEN Outcome(s, TRUE, "usage", warnings)
    ELSE IF attrname \in PrimaryKey(t) THEN Outcome(s, TRUE, "usage", warnings)
    ELSE Outcome(Updated(s, t, rows, attrname :> value), FALSE, "none", warnings)

\* Table.save_update(attrname, value, reload, error)
SaveUpdateCall(s, t, restriction, attrname, value, error) ==
    LET rows == Restricted(s.db[t], restriction)
        truth == CheckDownstreamAutopopulated(s.db, t, rows, error)
    IN  IF truth.raised THEN Outcome(s, TRUE, "guard", truth.warnings)
        ELSE IF truth.truth THEN UpdateCall(s, t, rows, attrname, value, truth.warnings)
        ELSE Outcome(s, FALSE, "none", truth.warnings)

\* Table.save_updates(updates, reload, error)
SaveUpdatesCall(s, t, restriction, updates, error) ==
    LET rows == Restricted(s.db[t], restriction)
        truth == CheckDownstreamAutopopulated(s.db, t, rows, error)
    IN  IF Cardinality(rows) # 1 THEN Outcome(s, TRUE, "usage", 0)
        ELSE IF DOMAIN updates \cap PrimaryKey(t) # {} THEN Outcome(s, TRUE, "usage", 0)
        ELSE IF DOMAIN updates \ Names(t) # {} THEN Outcome(s, TRUE, "usage", 0)
        ELSE IF truth.raised THEN Outcome(s, TRUE, "guard", truth.warnings)
        ELSE IF ~truth.truth THEN Outcome(s, FALSE, "none", truth.warnings)
        ELSE IF MakeRowRaises(t, updates, FALSE, <<>>) THEN Outcome(s, TRUE, "empty", truth.warnings)
        ELSE Outcome(Updated(s, t, rows, updates), FALSE, "none", truth.warnings)

----------------------------------------------------------------------------
(* Table.drop_quick and Table.drop.  A run of drop is the set of tables    *)
(* still declared and the steps taken so far.                              *)

\* the database refuses DROP TABLE while a table that exists references it
ReferencedBy(tables, t) ==
    \E i \in DOMAIN Sch.fks : Sch.fks[i].parent = t /\ Sch.fks[i].child \in tables \ {t}

\* FreeTable(table).drop_quick(); fails says the database refuses the statement
\* for a reason of its own
DropQuickAt(run, table, fails) ==
    IF table \notin run.declared
    THEN [run EXCEPT !.events = Append(@, Event("nothing", table))]
    ELSE IF fails \/ ReferencedBy(run.declared, table)
    THEN [run EXCEPT !.events = Append(@, Event("refused", table)), !.raised = TRUE]
    ELSE [run EXCEPT !.events = Append(@, Event("drop", table)), !.declared = @ \ {table}]

\* FreeTable(table).drop_quick() on a database that refuses for no other reason
DropQuick(run, table) == DropQuickAt(run, table, FALSE)

\* as DropEachAt, going on to the next table after a refusal
RECURSIVE DropEachAtGoesOn(_, _, _)
DropEachAtGoesOn(todo, run, fail_at) ==
    IF todo = <<>> THEN run
    ELSE DropEachAtGoesOn(Tail(todo),
                          DropQuickAt(run, Head(todo), Len(run.events) + 1 = fail_at), fail_at)

\* the loop of drop over the tables; the database refuses the statement of
\* step fail_at (0: none) for a reason of its own
RECURSIVE DropEachAt(_, _, _)
DropEachAt(todo, run, fail_at) ==
    IF todo = <<>> \/ run.raised THEN run
    ELSE DropEachAt(Tail(todo),
                    DropQuickAt(run, Head(todo), Len(run.events) + 1 = fail_at), fail_at)

DropEach(todo, run) == DropEachAt(todo, run, 0)

\* as DropOrder, without the reversal
DropOrderForward(tables) == tables

\* the order in which drop takes the tables
DropOrder(tables) == Reverse(tables)

\* Table.drop() on table self with self.restriction = restriction; descendants
\* is the answer of the graph, answer the user's reply to "Proceed?", fail_at
\* the step the database refuses (0: none)
DropCallAt(tables0, self, restriction, descendants, safemode, answer, fail_at) ==
    LET run0 == [declared |-> tables0, events |-> <<>>, raised |-> FALSE]
        tables == SelectSeq(descendants, LAMBDA table : ~IsDigit(table))
        do_drop == IF safemode THEN answer = "yes" ELSE TRUE
    IN  IF restriction # <<>> THEN [run0 EXCEPT !.raised = TRUE]
        ELSE IF do_drop THEN DropEachAt(DropOrder(tables), run0, fail_at)
        ELSE run0

\* Table.drop() on a database that refuses no statement for a reason of its own
DropCall(tables0, self, restriction, descendants, safemode, answer) ==
    DropCallAt(tables0, self, restriction, descendants, safemode, answer, 0)

----------------------------------------------------------------------------
(* AutoMake._create_kwargs.  Argument values are tagged: a scalar, a       *)
(* sequence (with its container class) or a mapping.  A binding of         *)
(* entry_settings names one column, a sequence of columns or a mapping     *)
(* from names to columns.                                                  *)

None == "None"

Scalar(v) == [kind |-> "scalar", v |-> v]
SeqValue(class, items) == [kind |-> "seq", class |-> class, items |-> items]
MapValue(map) == [kind |-> "map", map |-> map]

StrArg(column) == [kind |-> "str", column |-> column]
SeqArg(class, columns) == [kind |-> "seq", class |-> class, columns |-> columns]
MapArg(map) == [kind |-> "map", map |-> map]
OtherArg == [kind |-> "other"]

\* the columns a binding reads from the entry
ArgColumns(arg) ==
    IF arg.kind = "str" THEN {arg.column}
    ELSE IF arg.kind = "seq" THEN Range(arg.columns)
    ELSE IF arg.kind = "map" THEN {arg.map[k] : k \in DOMAIN arg.map}
    ELSE {}

\* the value a binding takes from the entry
Bound(entry, arg) ==
    IF arg.kind = "str" THEN Scalar(entry[arg.column])
    ELSE IF arg.kind = "seq"
    THEN SeqValue(arg.class, [i \in DOMAIN arg.columns |-> Scalar(entry[arg.columns[i]])])
    ELSE MapValue([k \in DOMAIN arg.map |-> Scalar(entry[arg.map[k]])])

\* a binding that raises: of another type, or naming a column the entry lacks
BindingRaises(entry, arg) ==
    arg.kind = "other" \/ ~(ArgColumns(arg) \subseteq DOMAIN entry)

\* a function without the name k
Without(f, k) == [x \in DOMAIN f \ {k} |-> f[x]]

\* dict.update: the values of g replace and extend those of f
Update(f, g) == [x \in DOMAIN f \cup DOMAIN g |-> IF x \in DOMAIN g THEN g[x] ELSE f[x]]

\* the two splices at the end of _create_kwargs, on the kwargs assembled so far
Spliced(kwargs, settings_args, settings_kwargs) ==
    LET no_args == settings_args = None
        args_bad == ~no_args /\ (settings_args \notin DOMAIN kwargs
                                 \/ kwargs[settings_args].kind # "seq")
        args == IF no_args \/ args_bad THEN <<>> ELSE kwargs[settings_args].items
        kwargs1 == IF no_args \/ args_bad THEN kwargs ELSE Without(kwargs, settings_args)
        no_kw == settings_kwargs = None
        kw_bad == ~no_kw /\ (settings_kwargs \notin DOMAIN kwargs1
                             \/ kwargs1[settings_kwargs].kind # "map")
        kwargs2 == IF no_kw \/ kw_bad THEN kwargs1
                   ELSE Update(Without(kwargs1, settings_kwargs), kwargs1[settings_kwargs].map)
    IN  IF args_bad \/ kw_bad
        THEN [raised |-> TRUE, args |-> <<>>, kwargs |-> <<>>]
        ELSE [raised |-> FALSE, args |-> args, kwargs |-> kwargs2]

\* the keyword arguments the splices leave, at return or when one of them raises
SplicedOrLeft(kwargs, settings_args, settings_kwargs) ==
    IF Spliced(kwargs, settings_args, settings_kwargs).raised THEN kwargs
    ELSE Spliced(kwargs, settings_args, settings_kwargs).kwargs

\* as CreateKwargs, with the global settings applied after the entry bindings
CreateKwargsGlobalLast(entry, entry_settings, global_settings, settings_args, settings_kwargs) ==
    IF \E kw \in DOMAIN entry_settings : BindingRaises(entry, entry_settings[kw])
    THEN [raised |-> TRUE, args |-> <<>>, kwargs |-> <<>>]
    ELSE Spliced(Update([kw \in DOMAIN entry_settings |-> Bound(entry, entry_settings[kw])],
                        global_settings),
                 settings_args, settings_kwargs)

\* AutoMake._create_kwargs(entry, entry_settings, global_settings, settings_args,
\* settings_kwargs)
CreateKwargs(entry, entry_settings, global_settings, settings_args, settings_kwargs) ==
    IF \E kw \in DOMAIN entry_settings : BindingRaises(entry, entry_settings[kw])
    THEN [raised |-> TRUE, args |-> <<>>, kwargs |-> <<>>]
    ELSE Spliced(Update(global_settings,
                        [kw \in DOMAIN entry_settings |-> Bound(entry, entry_settings[kw])]),
                 settings_args, settings_kwargs)

----------------------------------------------------------------------------
(* AutoMake.make.  The settings record of a table object is the record     *)
(* populate stored in _settings; its func is a deterministic function of   *)
(* its arguments that returns a result of one shape.                       *)

\* _settings of a table object on which populate has not run
NoSettings == [settings_name |-> NULL]

\* the computation functions: the shape of the result
Funcs == {"mapping", "mapping_p", "frame", "recarray", "none", "list"}

\* the number the function computes from its keyword arguments
FuncValue(kwargs) ==
    IF "x" \in DOMAIN kwargs /\ kwargs["x"].kind = "scalar" THEN kwargs["x"].v ELSE 1

\* func(*args, **kwargs): a mapping, a data frame or record array with one row
\* per part, None, or a list
Func(func, args, kwargs) ==
    LET x == FuncValue(kwargs)
        parts == [i \in 1..(IF x < MaxFrame THEN x ELSE MaxFrame) |-> [p |-> i, r |-> x]]
    IN  IF func = "mapping" THEN [shape |-> "dict", rows |-> << [r |-> x] >>]
        ELSE IF func = "mapping_p" THEN [shape |-> "dict", rows |-> << [p |-> 1, r |-> x] >>]
        ELSE IF func = "frame" THEN [shape |-> "frame", rows |-> parts]
        ELSE IF func = "recarray" THEN [shape |-> "recarray", rows |-> parts]
        ELSE IF func = "none" THEN [shape |-> "none", rows |-> <<>>]
        ELSE [shape |-> "list", rows |-> << [r |-> x] >>]

\* as Fetched, with the upstream tables not restricted by the key
FetchedUnrestricted(d, settings, key) ==
    LET table == d[settings.fetch_tables]
    IN  IF "fetch1" = settings.fetch_method
        THEN IF Cardinality(table) = 1
             THEN [raised |-> FALSE, entry |-> CHOOSE r \in table : TRUE]
             ELSE [raised |-> TRUE, entry |-> <<>>]
        ELSE IF table = {} THEN [raised |-> TRUE, entry |-> <<>>]
        ELSE [raised |-> FALSE,
              entry |-> CHOOSE r \in table : \A o \in table : r.id <= o.id]

\* the entry make fetches for key: the single row of fetch_tables & key
\* (fetch1), or the columns of its rows, each collapsed to its first value
\* (fetch with every column in parse_unique)
Fetched(d, settings, key) ==
    LET table == Restricted(d[settings.fetch_tables], << key >>)
    IN  IF "fetch1" = settings.fetch_method
        THEN IF Cardinality(table) = 1
             THEN [raised |-> FALSE, entry |-> CHOOSE r \in table : TRUE]
             ELSE [raised |-> TRUE, entry |-> <<>>]
        ELSE IF table = {} THEN [raised |-> TRUE, entry |-> <<>>]
        ELSE [raised |-> FALSE,
              entry |-> CHOOSE r \in table : \A o \in table : r.id <= o.id]

\* output[column] = value on a mapping or on every row of a data frame
WithColumn(rows, column, value) ==
    [i \in DOMAIN rows |-> Update(rows[i], (column :> value))]

\* the columns of the output
OutputColumns(rows) == IF rows = <<>> THEN {} ELSE DOMAIN rows[1]

\* "add columns that are missing in the output": the attributes of self in the
\* entry and not in the output, unless null
RECURSIVE BackFilled(_, _, _)
BackFilled(rows, entry, columns) ==
    IF columns = {} THEN rows
    ELSE LET column == CHOOSE c \in columns : TRUE
         IN  BackFilled(IF entry[column] = NULL THEN rows
                        ELSE WithColumn(rows, column, entry[column]),
                        entry, columns \ {column})

\* the outcome of make: the session, whether it raised, the shape of the
\* function's result ("not called" when make raised before) and the warning
MakeOutcome(s, raised, result, warned) ==
    [s |-> s, raised |-> raised, result |-> result, warned |-> warned]

\* as ShapeRefused, with every shape let through
ShapeNeverRefused(has_part_tables, shape) == FALSE

\* the test of the output's type: shape is "dict", "frame" or "list"
ShapeRefused(has_part_tables, shape) ==
    IF has_part_tables THEN shape \notin {"frame", "dict"} ELSE shape # "dict"

\* the output with the settings name and the columns missing from it added
Completed(self, settings, entry, rows) ==
    LET named == WithColumn(rows, "settings_name", settings.settings_name)
    IN  BackFilled(named, entry, (Names(self) \cap DOMAIN entry) \ OutputColumns(named))

\* "insert into table and part_table"
MakeInsert(s, self, rows, allow_insert) ==
    IF PartTables(self) # <<>>
    THEN Insert1pCall(s, self, TRUE, rows, OutputColumns(rows), allow_insert, 0)
    ELSE Insert1Call(s, self, rows[1], allow_insert, FALSE)

MakeInserted(r, result, warned) == MakeOutcome(r.s, r.raised, result, warned)

\* make from the output of the function on: None becomes an empty mapping with
\* a warning, a record array becomes a data frame
MakeOutput(s, self, settings, entry, output, allow_insert) ==
    LET is_none == output.shape = "none"
        shape == IF is_none THEN "dict" ELSE IF output.shape = "recarray" THEN "frame"
                 ELSE output.shape
        rows == IF is_none THEN << <<>> >> ELSE output.rows
    IN  IF ShapeRefused(PartTables(self) # <<>>, shape)
        THEN MakeOutcome(s, TRUE, output.shape, is_none)
        ELSE MakeInserted(MakeInsert(s, self, Completed(self, settings, entry, rows),
                                     allow_insert),
                          output.shape, is_none)

\* make from the assembled arguments on
MakeAssembled(s, self, settings, entry, assembled, allow_insert) ==
    IF assembled.raised THEN MakeOutcome(s, TRUE, "not called", FALSE)
    ELSE MakeOutput(s, self, settings, entry,
                    Func(settings.func, assembled.args, assembled.kwargs), allow_insert)

\* make from the fetched entry on
MakeEntry(s, self, settings, fetched, allow_insert) ==
    IF fetched.raised THEN MakeOutcome(s, TRUE, "not called", FALSE)
    ELSE MakeAssembled(s, self, settings, fetched.entry,
                       CreateKwargs(fetched.entry, settings.entry_settings,
                                    settings.global_settings, settings.args, settings.kwargs),
                       allow_insert)

\* AutoMake.make(key) on the table object of self, whose _settings is
\* `settings` (NoSettings: None, which cannot be subscripted) and whose
\* _allow_insert is allow_insert
MakeCall(s, self, settings, key, allow_insert) ==
    IF settings = NoSettings THEN MakeOutcome(s, TRUE, "not called", FALSE)
    ELSE MakeEntry(s, self, settings, Fetched(s.db, settings, key), allow_insert)

\* as GlobalSettingsAfter, had the arguments been assembled in global_settings
\* itself and not in a copy of it
GlobalSettingsShared(entry, entry_settings, global_settings, settings_args, settings_kwargs) ==
    IF \E kw \in DOMAIN entry_settings : BindingRaises(entry, entry_settings[kw])
    THEN global_settings
    ELSE SplicedOrLeft(Update(global_settings,
                              [kw \in DOMAIN entry_settings |-> Bound(entry, entry_settings[kw])]),
                       settings_args, settings_kwargs)

\* global_settings of the record when _create_kwargs has returned or raised:
\* kwargs is a copy (one level deep) and only the copy is assigned to, popped
\* from and updated
GlobalSettingsAfter(entry, entry_settings, global_settings, settings_args, settings_kwargs) ==
    global_settings

\* _settings of the table object when make(key) has returned or raised: make
\* assigns to no item of the record, and hands its global_settings to
\* _create_kwargs
SettingsAfterEntry(settings, fetched) ==
    IF fetched.raised THEN settings
    ELSE [settings EXCEPT !.global_settings =
            GlobalSettingsAfter(fetched.entry, settings.entry_settings,
                                settings.global_settings, settings.args, settings.kwargs)]

SettingsAfterMake(d, settings, key) ==
    IF settings = NoSettings THEN settings
    ELSE SettingsAfterEntry(settings, Fetched(d, settings, key))

----------------------------------------------------------------------------
(* AutoMake.populate and the population driver it hands over to: for each  *)
(* pending key, make(key) in a transaction of its own, with _allow_insert  *)
(* set; an error of make cancels the transaction and ends the call.        *)

\* the table whose primary key gives the keys of self: its parent
KeyParent(self) ==
    (CHOOSE fk \in Range(LoadedFks) : fk.child = self).parent

\* key_source restricted to settings_name, less the keys self holds
PendingKeys(d, self, settings_name) ==
    { key \in { Update(Project(r, PrimaryKey(KeyParent(self))), [settings_name |-> settings_name])
                : r \in d[KeyParent(self)] } :
        Restricted(d[self], << key >>) = {} }

\* the pending keys in the order of the driver: ascending
RECURSIVE InOrder(_)
InOrder(keys) ==
    IF keys = {} THEN <<>>
    ELSE LET first == CHOOSE k \in keys : \A o \in keys : k.id <= o.id
         IN  << first >> \o InOrder(keys \ {first})

\* the loop of the driver over the keys; run is [s, raised, settings, seen]:
\* settings is _settings of the table object, seen the records the make calls
\* so far found there
RECURSIVE PopulateLoop(_, _, _, _)
\* the driver after make returned m for the first of keys and left _settings
\* as `settings`
PopulateNext(keys, self, settings, m, seen) ==
    PopulateLoop(Tail(keys), self, settings,
                 [s |-> IF m.raised THEN CancelTransaction(m.s) ELSE CommitTransaction(m.s),
                  raised |-> m.raised, settings |-> settings, seen |-> seen])

PopulateLoop(keys, self, settings, run) ==
    IF keys = <<>> \/ run.raised THEN run
    ELSE PopulateNext(keys, self, SettingsAfterMake(run.s.db, settings, Head(keys)),
                      MakeCall(StartTransaction(run.s), self, settings, Head(keys), TRUE),
                      Append(run.seen, settings))

\* AutoMake.populate(settings_name) on the table object of self whose _settings
\* is `before`; stored is what the settings table holds under settings_name,
\* NoSettings when it holds no such record.  Gives the run of the driver:
\* the session, whether the call raised, and _settings afterwards
PopulateCall(s, self, before, stored) ==
    IF stored = NoSettings
    THEN [s |-> s, raised |-> TRUE, settings |-> before, seen |-> <<>>]
    ELSE PopulateLoop(InOrder(PendingKeys(s.db, self, stored.settings_name)),
                      self, stored,
                      [s |-> s, raised |-> FALSE, settings |-> stored, seen |-> <<>>])

----------------------------------------------------------------------------
(* The state machine. *)

Idle == [op |-> "none"]

InitOn(schemas) ==
    /\ schema \in schemas
    /\ declared = DOMAIN Schemas[schema].heading
    /\ db = [t \in DOMAIN Schemas[schema].heading |-> {}]
    /\ in_transaction = FALSE
    /\ snapshot = db
    /\ held = [t \in DOMAIN Schemas[schema].heading |-> NoSettings]
    /\ last = Idle

\* the session a call leaves becomes the state of the connection
Leave(s) ==
    /\ db' = s.db
    /\ in_transaction' = s.in_transaction
    /\ snapshot' = s.snapshot

\* a caller inserts a row outside any transaction
InsertUpTo(max_rows) ==
    /\ last = Idle
    /\ ~in_transaction
    /\ TotalRows(db) < max_rows
    /\ \E t \in declared : \E row \in [Names(t) -> Vals] :
         /\ Leave(Insert1Call(Here, t, row, TRUE, FALSE).s)
         /\ last' = Idle
    /\ UNCHANGED <<schema, declared, held>>

\* a caller inserts a row into a manual table outside any transaction
InsertUpstream ==
    /\ last = Idle
    /\ ~in_transaction
    /\ \E t \in { t \in declared : ~IsAutopopulated(t) } : \E row \in [Names(t) -> Vals] :
         /\ Leave(Insert1Call(Here, t, row, TRUE, FALSE).s)
         /\ last' = Idle
    /\ UNCHANGED <<schema, declared, held>>

Insert == InsertUpTo(MaxRows)
InsertFew == InsertUpTo(MaxTxRows)

\* an outer caller (e.g. the population driver around make) opens a transaction
BeginOuter ==
    /\ last = Idle
    /\ ~in_transaction
    /\ Leave(StartTransaction(Here))
    /\ last' = Idle
    /\ UNCHANGED <<schema, declared, held>>

\* the owner of the open transaction commits it
OwnerCommit ==
    /\ last = Idle
    /\ in_transaction
    /\ Leave(CommitTransaction(Here))
    /\ last' = Idle
    /\ UNCHANGED <<schema, declared, held>>

\* the owner of the open transaction cancels it
OwnerCancel ==
    /\ last = Idle
    /\ in_transaction
    /\ Leave(CancelTransaction(Here))
    /\ last' = Idle
    /\ UNCHANGED <<schema, declared, held>>

\* the record of the last call is dropped; the next call can begin
Forget ==
    /\ last # Idle
    /\ last' = Idle
    /\ UNCHANGED <<schema, declared, db, in_transaction, snapshot, held>>

\* the restrictions a caller puts on a table: none, or attribute = value
RestrictionsOf(t) == {<<>>} \cup { << (a :> v) >> : a \in Names(t), v \in Vals }

RealTables(delete_list) == SelectSeq(delete_list, LAMBDA name : ~IsDigit(name))

\* (self & restriction).delete(verbose, force) under config['safemode'] = safe;
\* user_choice answers one of `answers`, and the database may refuse one of the
\* row deletions for a reason of its own when may_fail
DeleteOn(safes, verboses, forces, answers, may_fail) ==
    /\ last = Idle
    /\ \E self \in declared :
        \E restriction \in RestrictionsOf(self), delete_list \in Descendants(self) :
          \E fail_at \in 0..(IF may_fail THEN Len(RealTables(delete_list)) ELSE 0) :
            LET restrictions == Restrictions(self, restriction, delete_list)
                run == DeleteRun(Here, restrictions, delete_list, fail_at)
            IN  \E safe \in safes, verbose \in verboses, force \in forces, answer \in answers :
                  LET r == DeleteCall(Here, safe, verbose, force, answer, restrictions, run)
                  IN  /\ Leave(r.s)
                      /\ last' = [op |-> "delete", self |-> self, restriction |-> restriction,
                                  safe |-> safe, force |-> force, answer |-> answer,
                                  delete_list |-> delete_list, pre |-> Here,
                                  events |-> r.s.events, raised |-> r.raised,
                                  message |-> r.message, total |-> r.total,
                                  restrictions |-> r.restrictions,
                                  commit_transaction |-> r.commit_transaction]
    /\ UNCHANGED <<schema, declared, held>>

Answers == {"yes", "no"}

\* any delete call
Delete == DeleteOn(BOOLEAN, BOOLEAN, BOOLEAN, Answers, TRUE)

\* a delete call with default arguments that the database does not refuse
DeleteDefault == DeleteOn(BOOLEAN, {TRUE}, {FALSE}, Answers, FALSE)

\* _allow_insert of the table: an auto-populated table has it set only while
\* its make callback runs; another table has no such attribute
AllowInsert(t) == IF IsAutopopulated(t) THEN BOOLEAN ELSE {TRUE}

\* the data frames over the attribute names of the schema: up to MaxFrame rows
\* with the same columns
AllNames == UNION { Names(t) : t \in Tables }
Frames(columns) == UNION { [1..n -> [columns -> Vals]] : n \in 0..MaxFrame }

\* self.insert1p(rows)
Insert1p ==
    /\ last = Idle
    /\ TotalRows(db) < MaxTxRows
    /\ \E self \in declared, columns \in SUBSET AllNames, is_frame \in BOOLEAN :
        \E frame \in (IF is_frame THEN Frames(columns) ELSE {<<>>}) :
          \E fail_at \in 0..(1 + Len(PartTables(self))), allow_insert \in AllowInsert(self) :
            LET r == Insert1pCall(Here, self, is_frame, frame, columns, allow_insert, fail_at)
            IN  /\ Leave(r.s)
                /\ last' = [op |-> "insert1p", self |-> self, pre |-> Here,
                            events |-> r.s.events, raised |-> r.raised]
    /\ UNCHANGED <<schema, declared, held>>

\* an attribute name that no heading has
Unknown == "zz"

\* (self & restriction).save_update(attrname, value, error=error)
SaveUpdate ==
    /\ last = Idle
    /\ \E self \in declared, error \in Policies :
        \E restriction \in RestrictionsOf(self), attrname \in Names(self) \cup {Unknown},
           value \in Vals \cup {NULL} :
            LET r == SaveUpdateCall(Here, self, restriction, attrname, value, error)
            IN  /\ Leave(r.s)
                /\ last' = [op |-> "save_update", self |-> self, restriction |-> restriction,
                            updates |-> (attrname :> value), error |-> error, pre |-> Here,
                            events |-> r.s.events, raised |-> r.raised, kind |-> r.kind,
                            warnings |-> r.warnings]
    /\ UNCHANGED <<schema, declared, held>>

\* (self & restriction).save_updates(updates, error=error)
SaveUpdates ==
    /\ last = Idle
    /\ \E self \in declared, error \in Policies :
        \E restriction \in RestrictionsOf(self), attrs \in SUBSET (Names(self) \cup {Unknown}) :
          \E updates \in [attrs -> Vals] :
            LET r == SaveUpdatesCall(Here, self, restriction, updates, error)
            IN  /\ Leave(r.s)
                /\ last' = [op |-> "save_updates", self |-> self, restriction |-> restriction,
                            updates |-> updates, error |-> error, pre |-> Here,
                            events |-> r.s.events, raised |-> r.raised, kind |-> r.kind,
                            warnings |-> r.warnings]
    /\ UNCHANGED <<schema, declared, held>>

\* (self & restriction).drop(), outside a transaction
Drop ==
    /\ last = Idle
    /\ ~in_transaction
    /\ \E self \in declared, safemode \in BOOLEAN, answer \in Answers :
        \E restriction \in RestrictionsOf(self), descendants \in Descendants(self) :
            LET r == DropCall(declared, self, restriction, descendants, safemode, answer)
            IN  /\ declared' = r.declared
                /\ db' = [t \in Tables |-> IF t \in r.declared THEN db[t] ELSE {}]
                /\ snapshot' = db'
                /\ last' = [op |-> "drop", self |-> self, restriction |-> restriction,
                            declared |-> declared, below |-> Below(self) \cap declared,
                            proceed |-> (~safemode \/ answer = "yes"),
                            events |-> r.events, raised |-> r.raised]
    /\ UNCHANGED <<schema, in_transaction, held>>

\* self.drop() where the database refuses one of the DROP statements
DropFailing ==
    /\ last = Idle
    /\ ~in_transaction
    /\ \E self \in declared, safemode \in BOOLEAN, answer \in Answers :
        \E descendants \in Descendants(self) :
          \E fail_at \in 1..Len(RealTables(descendants)) :
            \E r \in { DropCallAt(declared, self, <<>>, descendants, safemode, answer, fail_at) } :
                /\ declared' = r.declared
                /\ db' = [t \in Tables |-> IF t \in r.declared THEN db[t] ELSE {}]
                /\ snapshot' = db'
                /\ last' = [op |-> "drop", self |-> self, restriction |-> <<>>,
                            declared |-> declared, below |-> Below(self) \cap declared,
                            proceed |-> (~safemode \/ answer = "yes"),
                            events |-> r.events, raised |-> r.raised,
                            order |-> DropOrder(RealTables(descendants)),
                            fail_at |-> fail_at, pre |-> Here]
    /\ UNCHANGED <<schema, in_transaction, held>>

\* the mappings a caller hands to insert: any attributes of the heading and
\* possibly one the heading does not have
RowsFor(t) == UNION { [columns -> Vals] : columns \in SUBSET (Names(t) \cup {Unknown}) }
Batches(t) == UNION { [1..n -> RowsFor(t)] : n \in 0..MaxBatch }

\* self.insert(rows, ignore_extra_fields=..., allow_direct_insert=...)
InsertRows ==
    /\ last = Idle
    /\ TotalRows(db) < MaxTxRows
    /\ \E self \in declared, ignore_extra_fields \in BOOLEAN, allow_direct_insert \in BOOLEAN :
        \E rows \in Batches(self), allow_insert \in AllowInsert(self) :
            LET r == InsertCall(Here, self, rows, ignore_extra_fields, allow_direct_insert,
                                allow_insert, FALSE)
            IN  /\ Leave(r.s)
                /\ last' = [op |-> "insert", self |-> self, rows |-> rows, query |-> FALSE,
                            ignore_extra_fields |-> ignore_extra_fields,
                            allow_direct_insert |-> allow_direct_insert,
                            allow_insert |-> allow_insert, pre |-> Here,
                            events |-> r.s.events, raised |-> r.raised]
    /\ UNCHANGED <<schema, declared, held>>

\* self.insert(source, ignore_extra_fields=..., allow_direct_insert=...)
InsertFromQuery ==
    /\ last = Idle
    /\ \E self \in declared, ignore_extra_fields \in BOOLEAN, allow_direct_insert \in BOOLEAN :
        \E source \in declared \ {self}, allow_insert \in AllowInsert(self) :
            LET r == InsertFromQueryCall(Here, self, source, ignore_extra_fields,
                                         allow_direct_insert, allow_insert)
            IN  /\ Leave(r.s)
                /\ last' = [op |-> "insert", self |-> self, rows |-> <<>>, query |-> TRUE,
                            ignore_extra_fields |-> ignore_extra_fields,
                            allow_direct_insert |-> allow_direct_insert,
                            allow_insert |-> allow_insert, pre |-> Here,
                            events |-> r.s.events, raised |-> r.raised]
    /\ UNCHANGED <<schema, declared, held>>

\* the inputs of the argument assembly: a fetched entry, bindings and global
\* defaults for a few argument names, and the reserved names
Entries == [{"id", "v"} -> Vals]
ArgForms == { StrArg("v"), StrArg(Unknown), SeqArg("tuple", <<"id", "v">>),
              MapArg([x |-> "v"]), OtherArg }
GlobalValues == { Scalar(MaxVal + 1), SeqValue("list", << Scalar(MaxVal + 1) >>),
                  MapValue([x |-> Scalar(MaxVal + 2)]), MapValue([y |-> Scalar(MaxVal + 2)]) }
EntrySettings == UNION { [names -> ArgForms] : names \in SUBSET {"x", "k"} }
GlobalSettings == UNION { [names -> GlobalValues] : names \in SUBSET {"x", "a", "k"} }

\* self._create_kwargs(entry, entry_settings, global_settings, args, kwargs)
CreateKwargsStep ==
    /\ last = Idle
    /\ \E entry \in Entries, entry_settings \in EntrySettings, global_settings \in GlobalSettings,
          settings_args \in {None, "a"}, settings_kwargs \in {None, "k"} :
            last' = [op |-> "create_kwargs", entry |-> entry, entry_settings |-> entry_settings,
                     global_settings |-> global_settings, settings_args |-> settings_args,
                     settings_kwargs |-> settings_kwargs,
                     out |-> CreateKwargs(entry, entry_settings, global_settings,
                                          settings_args, settings_kwargs)]
    /\ UNCHANGED <<schema, declared, db, in_transaction, snapshot, held>>

\* the AutoMake tables: the auto-populated tables that are not part tables
MakeTargets ==
    { t \in declared : IsAutopopulated(t)
                       /\ \A m \in declared : t \notin Range(PartTables(m)) }

\* the records of the settings table: a name, the upstream table to fetch
\* from, the fetch method (fetch1 under the first name, fetch under the
\* others), bindings, defaults and the function; for the function that gives
\* a mapping, also records whose global_settings hold a keyword mapping and a
\* positional list under the reserved names
SettingsRecords ==
    { settings \in
        [settings_name : Vals, fetch_tables : {tU}, fetch_method : {"fetch1", "fetch"},
         parse_unique : {{"id", "v"}}, entry_settings : {[x |-> StrArg("v")]},
         global_settings : {[x |-> Scalar(MaxVal), y |-> Scalar(MaxVal)]},
         args : {None}, kwargs : {None}, func : Funcs] :
        settings.fetch_method = "fetch1" <=> settings.settings_name = 1 }
    \cup
    { settings \in
        [settings_name : Vals, fetch_tables : {tU}, fetch_method : {"fetch1", "fetch"},
         parse_unique : {{"id", "v"}}, entry_settings : {[x |-> StrArg("v")]},
         global_settings : {[x |-> Scalar(MaxVal), a |-> SeqValue("list", << Scalar(MaxVal) >>),
                             k |-> MapValue([y |-> Scalar(MaxVal)])]},
         args : {"a"}, kwargs : {"k"}, func : {"mapping"}] :
        settings.fetch_method = "fetch1" <=> settings.settings_name = 1 }

\* self.populate(settings_name), outside a transaction
Populate ==
    /\ last = Idle
    /\ ~in_transaction
    /\ \E self \in MakeTargets, stored \in SettingsRecords \cup {NoSettings} :
         \E r \in { PopulateCall(Here, self, held[self], stored) } :
             /\ Leave(r.s)
             /\ held' = [held EXCEPT ![self] = r.settings]
             /\ last' = [op |-> "populate", self |-> self, stored |-> stored,
                         before |-> held[self], pre |-> Here,
                         events |-> r.s.events, raised |-> r.raised, seen |-> r.seen]
    /\ UNCHANGED <<schema, declared>>

\* the keys make is called with: a key of the upstream table under the name of
\* the record the table object holds
MakeKeys(self) == [id : Vals, settings_name : {held[self].settings_name}]

\* the rows of self and of its part tables under key
Made(d, self, key) ==
    [t \in {self} \cup Range(PartTables(self)) |-> Restricted(d[t], << key >>)]

\* self.make(key): by the driver, in the transaction it opened and with
\* _allow_insert set, or by any other caller
Make ==
    /\ last = Idle
    /\ \E self \in MakeTargets, allow_insert \in BOOLEAN :
        \E key \in MakeKeys(self) :
         \E r \in { MakeCall(Here, self, held[self], key, allow_insert) } :
             /\ Leave(r.s)
             /\ last' = [op |-> "make", self |-> self, key |-> key, settings |-> held[self],
                         allow_insert |-> allow_insert, pre |-> Here,
                         events |-> r.s.events, raised |-> r.raised,
                         result |-> r.result, warned |-> r.warned]
             /\ held' = [held EXCEPT ![self] = SettingsAfterMake(db, held[self], key)]
    /\ UNCHANGED <<schema, declared>>

\* (self & key).delete() on the row the last make wrote, safemode off
DeleteMade ==
    /\ last.op = "make" /\ ~last.raised
    /\ \E delete_list \in Descendants(last.self) :
         \E restrictions \in { Restrictions(last.self, << last.key >>, delete_list) } :
           \E r \in { DeleteCall(Here, FALSE, FALSE, FALSE, "yes", restrictions,
                                 DeleteRun(Here, restrictions, delete_list, 0)) } :
             /\ Leave(r.s)
             /\ last' = [op |-> "delete made", self |-> last.self, key |-> last.key,
                         settings |-> last.settings, allow_insert |-> last.allow_insert,
                         first |-> Made(db, last.self, last.key), raised |-> r.raised]
    /\ UNCHANGED <<schema, declared, held>>

\* self.make(key) again, after the row the first call wrote was deleted
Remake ==
    /\ last.op = "delete made" /\ ~last.raised
    /\ \E r \in { MakeCall(Here, last.self, held[last.self], last.key, last.allow_insert) } :
           /\ Leave(r.s)
           /\ last' = [op |-> "remake", self |-> last.self, key |-> last.key,
                       settings |-> held[last.self], first |-> last.first,
                       second |-> Made(r.s.db, last.self, last.key), raised |-> r.raised]
    /\ held' = [held EXCEPT ![last.self] = SettingsAfterMake(db, held[last.self], last.key)]
    /\ UNCHANGED <<schema, declared>>

\* The transaction discipline of delete: every flag, answer and failure, nested
\* in an outer transaction or not, on a small database
InitDelete == InitOn({1})
NextDelete == Forget \/ InsertFew \/ BeginOuter \/ OwnerCommit \/ OwnerCancel \/ Delete
SpecDelete == InitDelete /\ [][NextDelete]_vars

\* The rows a cascading delete removes: every dependency graph and contents
InitCascade == InitOn(DeleteSchemas)
NextCascade == Forget \/ Insert \/ DeleteDefault
SpecCascade == InitCascade /\ [][NextCascade]_vars

\* insert1p on a master with part tables, nested in an outer transaction or not
InitInsert == InitOn(InsertSchemas)
NextInsert == Forget \/ InsertFew \/ BeginOuter \/ OwnerCommit \/ OwnerCancel \/ Insert1p
SpecInsert == InitInsert /\ [][NextInsert]_vars

\* guarded updates on a table with computed tables below it
InitUpdate == InitOn(UpdateSchemas)
NextUpdate == Forget \/ Insert \/ SaveUpdate \/ SaveUpdates
SpecUpdate == InitUpdate /\ [][NextUpdate]_vars

\* drops on every dependency graph, with rows in the tables
AllSchemas == DOMAIN Schemas
InitDrop == InitOn(AllSchemas)
NextDrop == Forget \/ InsertFew \/ Drop
SpecDrop == InitDrop /\ [][NextDrop]_vars

\* drops in which the database refuses a statement, on every dependency graph
\* with tables for deletes, with rows in the tables
InitDropFails == InitOn(DeleteSchemas)
NextDropFails == Forget \/ InsertFew \/ DropFailing
SpecDropFails == InitDropFails /\ [][NextDropFails]_vars

\* inserts of batches of mappings and inserts from a query, into manual and
\* auto-populated tables
InitRows == InitOn(UpdateSchemas)
NextRows == Forget \/ InsertFew \/ BeginOuter \/ OwnerCommit \/ OwnerCancel \/ InsertRows \/ InsertFromQuery
SpecRows == InitRows /\ [][NextRows]_vars

\* the argument assembly of make on bounded inputs
InitKwargs == InitOn({1})
NextKwargs == Forget \/ CreateKwargsStep
SpecKwargs == InitKwargs /\ [][NextKwargs]_vars

\* populate and make on an AutoMake table with and without a part table, as
\* rows arrive upstream
InitMake == InitOn(MakeSchemas)
NextMake == Forget \/ InsertUpstream \/ Populate \/ Make \/ DeleteMade \/ Remake
SpecMake == InitMake /\ [][NextMake]_vars

----------------------------------------------------------------------------
(* What the claims speak of. *)

\* the commits and cancels among the events of a call, in order
Finalizers(events) == SelectSeq(events, LAMBDA e : e.op \in {"commit", "cancel"})

\* the transaction a call ran in was committed by the call
CommittedByCall(events) ==
    Finalizers(events) # <<>> /\ Head(Finalizers(events)).op = "commit"

\* the rows that depend on the rows `marked` (table -> rows) through foreign
\* keys, directly or transitively, in contents d; the rows marked included
RECURSIVE Dependents(_, _)
Dependents(d, marked) ==
    LET more == [t \in DOMAIN d |->
                    marked[t] \cup
                    { c \in d[t] : \E i \in DOMAIN LoadedFks :
                        /\ LoadedFks[i].child = t
                        /\ \E p \in marked[LoadedFks[i].parent] : References(LoadedFks[i], c, p) }]
    IN  IF more = marked THEN marked ELSE Dependents(d, more)

\* the rows a delete of (self, restriction) must remove from contents d
MustGo(d, self, restriction) ==
    Dependents(d, [t \in DOMAIN d |-> IF t = self THEN Restricted(d[t], restriction) ELSE {}])

----------------------------------------------------------------------------
(* C1: a delete called inside an open transaction leaves that transaction *)
(* open and issues no commit and no cancel, whatever its outcome.         *)
NestedDeleteKeepsTransaction ==
    (last.op = "delete" /\ last.pre.in_transaction) =>
        /\ in_transaction
        /\ Count(last.events, "commit") = 0
        /\ Count(last.events, "cancel") = 0

(* C2: a committed delete of (T, R) removes exactly the rows of T matching *)
(* R and the rows that depend on them, and leaves every other row.         *)
CommittedDeleteRemovesDependents ==
    (last.op = "delete" /\ ~last.raised /\ CommittedByCall(last.events)) =>
        \A t \in Tables :
            db[t] = last.pre.db[t] \ MustGo(last.pre.db, last.self, last.restriction)[t]

\* a committed restricted delete that removed rows of a descendant and kept a row of T
CommittedDeleteWitness ==
    /\ last.op = "delete" /\ ~last.raised /\ CommittedByCall(last.events)
    /\ last.restriction # <<>>
    /\ db[last.self] # {}
    /\ \E t \in Tables \ {last.self} : db[t] # last.pre.db[t] /\ db[t] # {}

(* C10: a delete outside a transaction that removes no row cancels its     *)
(* transaction once, reports "Nothing to delete", and issues no commit or  *)
(* cancel after that.                                                      *)
EmptyDeleteCancelsOnce ==
    (last.op = "delete" /\ ~last.pre.in_transaction /\ ~last.raised /\ last.total = 0) =>
        /\ last.message = << "Nothing to delete" >>
        /\ Finalizers(last.events) = << Event("cancel", <<>>) >>

\* the events of a call that are writes the database accepted
Writes(events) == SelectSeq(events, LAMBDA e : e.op \in {"insert", "delete", "update"})

\* the transaction statements among the events of a call, in order
Statements(events) == SelectSeq(events, LAMBDA e : e.op \in {"start", "commit", "cancel"})

(* C3: when insert1p raises, nothing it wrote is persisted: the committed  *)
(* contents are those before the call, and so are the contents the session *)
(* sees when the call opened the transaction itself.                       *)
Insert1pAtomic ==
    (last.op = "insert1p" /\ last.raised) =>
        /\ snapshot = last.pre.snapshot
        /\ ~last.pre.in_transaction => db = last.pre.db

\* insert1p outside a transaction failed on the second part table, after the
\* master and the first part table were written
Insert1pAtomicWitness ==
    /\ last.op = "insert1p" /\ last.raised /\ ~last.pre.in_transaction
    /\ Len(Writes(last.events)) = 2
    /\ \E i \in DOMAIN last.events : last.events[i] = Event("refused", tMQ)

(* C4: insert1p inside an open transaction writes in it and issues no      *)
(* start, commit or cancel; outside a transaction, once it reaches its     *)
(* writes, it starts one transaction and ends it itself: commit on         *)
(* success, cancel on failure.                                             *)
Insert1pJoinsOrOwns ==
    last.op = "insert1p" =>
        IF last.pre.in_transaction
        THEN /\ in_transaction
             /\ Statements(last.events) = <<>>
             /\ snapshot = last.pre.snapshot
        ELSE /\ ~in_transaction
             /\ \/ last.events = <<>> /\ last.raised
                \/ /\ Head(last.events) = Event("start", <<>>)
                   /\ Statements(last.events) =
                        << Event("start", <<>>),
                           Event(IF last.raised THEN "cancel" ELSE "commit", <<>>) >>
                   /\ last.events[Len(last.events)].op \in {"commit", "cancel"}
             /\ ~last.raised => snapshot = db

\* both cases happen: a nested insert1p that wrote, and one outside a
\* transaction that wrote and committed
Insert1pJoinsOrOwnsWitness ==
    /\ last.op = "insert1p" /\ ~last.raised
    /\ Len(Writes(last.events)) = 3
    /\ last.pre.in_transaction

----------------------------------------------------------------------------
\* the last call was a guarded update
UpdateOp == last.op \in {"save_update", "save_updates"}

\* the rows the target of the update selected
Target == Restricted(last.pre.db[last.self], last.restriction)

\* the call names one row and only attributes that may be updated
ValidUpdate ==
    /\ Cardinality(Target) = 1
    /\ DOMAIN last.updates # {}
    /\ DOMAIN last.updates \subseteq Names(last.self) \ PrimaryKey(last.self)

\* a computed table below the target holds a row that depends on the target,
\* any number of foreign keys down
ComputedDepends ==
    \E t \in Below(last.self) :
        IsAutopopulated(t) /\ MustGo(last.pre.db, last.self, last.restriction)[t] # {}

\* a computed child of the target holds a row that references the target
ComputedChildDepends ==
    \E i \in DOMAIN LoadedFks :
        /\ LoadedFks[i].parent = last.self
        /\ IsAutopopulated(LoadedFks[i].child)
        /\ \E c \in last.pre.db[LoadedFks[i].child], p \in Target : References(LoadedFks[i], c, p)

\* the call issued no UPDATE and left the contents alone
NoUpdate == Count(last.events, "update") = 0 /\ db = last.pre.db

(* C5: an update of one row that a computed descendant's entry depends on  *)
(* issues no UPDATE and leaves the row alone: it raises under `raise`, and *)
(* returns without error or warning under `ignore`.                        *)
GuardedUpdateRefused ==
    (UpdateOp /\ ValidUpdate /\ ComputedDepends /\ last.error \in {"raise", "ignore"}) =>
        /\ NoUpdate
        /\ last.error = "raise" => last.raised
        /\ last.error = "ignore" => ~last.raised /\ last.warnings = 0

GuardCoversEveryDepth ==
    (last.op = "save_update" /\ ComputedDepends) =>
        /\ last.error = "raise" => last.raised /\ last.kind = "guard"
        /\ last.error = "ignore" => Count(last.events, "update") = 0

(* C8: an update whose target is not exactly one row, or that names a      *)
(* primary-key attribute, fails and issues no UPDATE, whatever the policy  *)
(* and the rows below.                                                     *)
UsageErrorAlways ==
    (UpdateOp /\ (Cardinality(Target) # 1 \/ DOMAIN last.updates \cap PrimaryKey(last.self) # {})) =>
        /\ last.raised
        /\ Count(last.events, "update") = 0

\* the tables that reference table t, among `tables`
Referencing(tables, t) ==
    { Sch.fks[i].child : i \in {j \in DOMAIN Sch.fks : Sch.fks[j].parent = t} } \cap (tables \ {t})

(* C9: a drop that proceeds drops the table and every descendant, each     *)
(* only after every table that references it has been dropped; no step is  *)
(* refused and the call does not raise.                                    *)
DropInReverseDependencyOrder ==
    (last.op = "drop" /\ last.restriction = <<>> /\ last.proceed) =>
        /\ ~last.raised
        /\ \A i \in DOMAIN last.events :
            /\ last.events[i].op = "drop"
            /\ \A c \in Referencing(last.declared, last.events[i].table) :
                \E j \in 1..(i - 1) : last.events[j] = Event("drop", c)
        /\ declared = last.declared \ ({last.self} \cup last.below)

\* the diamond with a renamed foreign key is dropped from its root: four
\* tables, the last of them the root
DropInReverseDependencyOrderWitness ==
    /\ last.op = "drop" /\ last.proceed /\ ~last.raised
    /\ schema = 2
    /\ Len(last.events) = 4
    /\ last.events[4] = Event("drop", tA)
    /\ last.events[1] = Event("drop", tX)

----------------------------------------------------------------------------
(* C11: a delete in safemode inside an open transaction raises before the  *)
(* graph is loaded and before any statement is issued; the transaction     *)
(* stays open and the contents, pending and committed, are untouched.      *)
SafeDeleteInTransactionRefused ==
    (last.op = "delete" /\ last.pre.in_transaction /\ last.safe) =>
        /\ last.raised
        /\ last.events = <<>>
        /\ in_transaction
        /\ db = last.pre.db
        /\ snapshot = last.pre.snapshot

\* the refused delete had rows to delete, some of them pending in the transaction
SafeDeleteInTransactionRefusedWitness ==
    /\ last.op = "delete" /\ last.pre.in_transaction /\ last.safe /\ last.raised
    /\ Restricted(last.pre.db[last.self], last.restriction) # {}
    /\ last.pre.db # last.pre.snapshot

----------------------------------------------------------------------------
\* the positions of the events of a call at which the database refused a statement
RefusedAt(events) == { i \in DOMAIN events : events[i].op = "refused" }

(* C12: when the database refuses the deletion from a table in the middle  *)
(* of a cascade, no further table is deleted from and the call raises; a   *)
(* transaction the call opened is cancelled, which restores every row      *)
(* removed so far, and a transaction it joined is left open.               *)
FailedCascadeCancelsOwnTransaction ==
    (last.op = "delete" /\ RefusedAt(last.events) # {}) =>
        /\ last.raised
        /\ \A i \in RefusedAt(last.events) :
              \A j \in DOMAIN last.events : j > i => last.events[j].op = "cancel"
        /\ IF last.pre.in_transaction
           THEN /\ Finalizers(last.events) = <<>>
                /\ in_transaction
                /\ snapshot = last.pre.snapshot
           ELSE /\ Finalizers(last.events) = << Event("cancel", <<>>) >>
                /\ ~in_transaction
                /\ db = last.pre.db
                /\ snapshot = last.pre.db

\* a cascade of the call's own transaction failed after rows of a descendant
\* were removed
FailedCascadeWitness ==
    /\ last.op = "delete" /\ RefusedAt(last.events) # {} /\ ~last.pre.in_transaction
    /\ \E i \in DOMAIN last.events : last.events[i].op = "delete"
    /\ last.total > 0

----------------------------------------------------------------------------
\* the rows of `rows` whose attribute id is not v
OtherIds(rows, v) == { r \in rows : r.id # v }

(* C13: with a(id), its primary child b(id) and its secondary child        *)
(* c(c | id): a committed delete of a restricted to id = v removes the     *)
(* rows of a and b with id = v and the rows of c that reference id = v of  *)
(* a; every row of a, b and c with another id remains.                     *)
SecondaryChildLosesReferencingRows ==
    (/\ last.op = "delete" /\ ~last.raised /\ CommittedByCall(last.events)
     /\ schema = 1 /\ last.self = tA /\ last.restriction # <<>>) =>
        \A t \in {tA, tB, tC} :
            db[t] = OtherIds(last.pre.db[t], last.restriction[1].id)

\* c held a row that references the deleted id and a row that references another
SecondaryChildWitness ==
    /\ last.op = "delete" /\ ~last.raised /\ CommittedByCall(last.events)
    /\ schema = 1 /\ last.self = tA /\ last.restriction # <<>>
    /\ db[tC] # {}
    /\ db[tC] # last.pre.db[tC]

----------------------------------------------------------------------------
\* the last call was an insert of a batch of mappings
BatchInsert == last.op = "insert" /\ ~last.query

\* some row of the batch names an attribute that the heading does not have
SomeUnknownField == \E i \in DOMAIN last.rows : ~(DOMAIN last.rows[i] \subseteq Names(last.self))

\* the batch less its unknown attributes: the rows name the same attributes, at
\* least one, and the database accepts them
AcceptableKnownPart ==
    /\ last.rows # <<>>
    /\ \A i \in DOMAIN last.rows :
          DOMAIN Kept(last.self, last.rows[i]) = DOMAIN Kept(last.self, last.rows[1])
    /\ DOMAIN Kept(last.self, last.rows[1]) # {}
    /\ InsertAll(last.pre.db, last.self,
                 [i \in DOMAIN last.rows |-> Kept(last.self, last.rows[i])]).ok

\* the stored rows of the batch
BatchStored == { Stored(last.self, Kept(last.self, last.rows[i])) : i \in DOMAIN last.rows }

(* C14: without ignore_extra_fields an insert of mappings of which any,    *)
(* the first or a later one, names an attribute outside the heading raises *)
(* and writes nothing; with ignore_extra_fields the unknown attributes are *)
(* dropped and the rows are written.                                       *)
UnknownFieldsRefused ==
    (BatchInsert /\ SomeUnknownField) =>
        /\ ~last.ignore_extra_fields =>
              last.raised /\ Writes(last.events) = <<>> /\ db = last.pre.db
        /\ (/\ last.ignore_extra_fields /\ AcceptableKnownPart
            /\ (last.allow_insert \/ last.allow_direct_insert)) =>
              ~last.raised /\ db[last.self] = last.pre.db[last.self] \cup BatchStored

----------------------------------------------------------------------------
(* C15: an insert, of rows or from a query, into a table whose insert      *)
(* permission is not set and without allow_direct_insert raises and issues *)
(* no statement; with the permission set or with allow_direct_insert an    *)
(* acceptable batch is written into an auto-populated table.               *)
DirectInsertRefused ==
    last.op = "insert" =>
        /\ (~last.allow_insert /\ ~last.allow_direct_insert) =>
              last.raised /\ last.events = <<>> /\ db = last.pre.db
        /\ (/\ IsAutopopulated(last.self) /\ BatchInsert /\ ~SomeUnknownField
            /\ AcceptableKnownPart /\ (last.allow_insert \/ last.allow_direct_insert)) =>
              ~last.raised /\ db[last.self] = last.pre.db[last.self] \cup BatchStored

\* a batch the database would accept was refused for the missing permission
DirectInsertRefusedWitness ==
    /\ BatchInsert /\ ~last.allow_insert /\ ~last.allow_direct_insert
    /\ IsAutopopulated(last.self) /\ ~SomeUnknownField /\ AcceptableKnownPart
    /\ last.raised

----------------------------------------------------------------------------
\* the argument names that entry_settings and global_settings both give
InBoth == DOMAIN last.entry_settings \cap DOMAIN last.global_settings

\* the names the spliced keyword mapping gives, if one is spliced
SplicedNames ==
    LET assembled == Update(last.global_settings,
                            [kw \in DOMAIN last.entry_settings |->
                                Bound(last.entry, last.entry_settings[kw])])
    IN  IF /\ last.settings_kwargs \in DOMAIN assembled
           /\ assembled[last.settings_kwargs].kind = "map"
        THEN DOMAIN assembled[last.settings_kwargs].map
        ELSE {}

(* C17 as stated: for every argument name in both settings the keyword     *)
(* argument passed to the function carries the value bound from the entry. *)
EntryBindingWins ==
    (last.op = "create_kwargs" /\ ~last.out.raised) =>
        \A name \in InBoth :
            /\ name \in DOMAIN last.out.kwargs
            /\ last.out.kwargs[name] = Bound(last.entry, last.entry_settings[name])

(* C17: for every argument name in both settings that is not a reserved    *)
(* splice name and not a name of the spliced keyword mapping, the keyword  *)
(* argument passed to the function carries the value bound from the entry. *)
EntryBindingWinsUnlessSpliced ==
    (last.op = "create_kwargs" /\ ~last.out.raised) =>
        \A name \in InBoth :
            (name \notin {last.settings_args, last.settings_kwargs} \cup SplicedNames) =>
                /\ name \in DOMAIN last.out.kwargs
                /\ last.out.kwargs[name] = Bound(last.entry, last.entry_settings[name])

\* a collision on x decided for the entry while a keyword mapping is spliced
EntryBindingWinsWitness ==
    /\ last.op = "create_kwargs" /\ ~last.out.raised
    /\ "x" \in InBoth /\ "x" \notin SplicedNames
    /\ last.settings_kwargs # None /\ last.settings_args # None
    /\ last.out.kwargs["x"] # last.global_settings["x"]

----------------------------------------------------------------------------
\* the tables of the row deletions of a call, in the order they were issued
DeleteSteps(events) ==
    LET deletes == SelectSeq(events, LAMBDA e : e.op = "delete")
    IN  [i \in DOMAIN deletes |-> deletes[i].table]

(* C20: within one cascading delete, the deletion from a table is issued   *)
(* after the deletion from every one of its descendants in the delete      *)
(* list; no deletion is issued to a projection node; and a cascade that    *)
(* is not refused deletes once from every real table of the delete list,   *)
(* the target table last.                                                  *)
DeletesInReverseDependencyOrder ==
    last.op = "delete" =>
        LET steps == DeleteSteps(last.events)
        IN  /\ \A i, j \in DOMAIN steps : steps[j] \in Below(steps[i]) => j < i
            /\ \A i \in DOMAIN steps : ~IsDigit(steps[i])
            /\ (~last.raised) =>
                  /\ Len(steps) = Len(RealTables(last.delete_list))
                  /\ Range(steps) = Range(RealTables(last.delete_list))
                  /\ steps[Len(steps)] = last.self

\* a committed cascade through a projection node that removed rows from the
\* target and from a table two levels below it
DeletesInReverseDependencyOrderWitness ==
    /\ last.op = "delete" /\ ~last.raised /\ schema = 2 /\ last.self = tA
    /\ n1 \in Range(last.delete_list)
    /\ DeleteSteps(last.events)[1] = tX
    /\ db[tX] # last.pre.db[tX] /\ db[tA] # last.pre.db[tA]

----------------------------------------------------------------------------
(* C16: when populate has returned or failed, the table object holds no    *)
(* settings record.                                                        *)
PopulateDiscardsSettings ==
    last.op = "populate" => held[last.self] = NoSettings

----------------------------------------------------------------------------
\* the result of the function is of a shape make does not take for self
WrongShape(self, result) ==
    IF PartTables(self) # <<>> THEN result \notin {"dict", "frame", "recarray"}
    ELSE result # "dict"

\* make raised and issued no statement; the contents are as before
RefusedUnwritten ==
    /\ last.raised
    /\ last.events = <<>>
    /\ db = last.pre.db

(* C18 as stated: when the function's result is not a mapping (target      *)
(* without part tables), or neither a mapping nor tabular (target with     *)
(* part tables), make raises and no insert into the master or a part       *)
(* table is issued.                                                        *)
MakeRefusesWrongShape ==
    (last.op = "make" /\ last.result # "not called" /\ WrongShape(last.self, last.result)) =>
        RefusedUnwritten

(* C18: when the function's result is not None and is not a mapping        *)
(* (target without part tables), or neither a mapping nor tabular (target  *)
(* with part tables), make raises and no insert into the master or a part  *)
(* table is issued.                                                        *)
MakeRefusesWrongShapeUnlessNone ==
    (/\ last.op = "make" /\ last.result \notin {"not called", "none"}
     /\ WrongShape(last.self, last.result)) =>
        RefusedUnwritten

\* the driver's make was handed a list for a target without part tables, for a
\* key that is upstream
MakeRefusesWrongShapeWitness ==
    /\ last.op = "make" /\ last.result = "list" /\ last.self = tW
    /\ last.allow_insert /\ last.raised
    /\ Restricted(db[tU], << last.key >>) # {}

----------------------------------------------------------------------------
----------------------------------------------------------------------------
\* the positions of the events `op` among the events of a call
At(events, op) == { i \in DOMAIN events : events[i].op = op }

(* C21: in a delete, the graph is loaded and the restrictions are planned  *)
(* before the transaction is started and before any row deletion is        *)
(* attempted; the call starts at most one transaction, and a call outside  *)
(* a transaction that gets to its plan starts exactly one, right after it. *)
DeletePlansBeforeItStarts ==
    last.op = "delete" =>
        /\ Cardinality(At(last.events, "start")) <= 1
        /\ \A i \in At(last.events, "start") \cup At(last.events, "delete")
                    \cup At(last.events, "refused") :
              \E l, p \in 1..(i - 1) :
                  l < p /\ last.events[l].op = "load" /\ last.events[p].op = "plan"
        /\ (~last.pre.in_transaction /\ last.events # <<>>) =>
              /\ Len(last.events) >= 3
              /\ last.events[1].op = "load" /\ last.events[2].op = "plan"
              /\ last.events[3].op = "start"
        /\ last.pre.in_transaction => At(last.events, "start") = {}

\* a cascade over three real tables ran in the transaction the call started
DeletePlansBeforeItStartsWitness ==
    /\ last.op = "delete" /\ ~last.pre.in_transaction /\ ~last.raised
    /\ Cardinality(At(last.events, "delete")) >= 3
    /\ last.total >= 2

----------------------------------------------------------------------------
\* the call needs no confirmation, or the user gives it
Confirmed == ~last.safe \/ last.force \/ last.answer = "yes"

(* C22: a delete outside a transaction that removed at least one row       *)
(* commits if and only if safemode is off, force is given or the user      *)
(* answers yes; otherwise the transaction is cancelled and every table     *)
(* holds the rows it held before the call.                                 *)
DeleteCommitsIffConfirmed ==
    (last.op = "delete" /\ ~last.pre.in_transaction /\ ~last.raised /\ last.total > 0) =>
        IF Confirmed
        THEN /\ Finalizers(last.events) = << Event("commit", <<>>) >>
             /\ db # last.pre.db /\ snapshot = db
        ELSE /\ Finalizers(last.events) = << Event("cancel", <<>>) >>
             /\ db = last.pre.db /\ snapshot = last.pre.db

\* the user declined a safemode delete that had removed rows of two tables
DeleteCommitsIffConfirmedWitness ==
    /\ last.op = "delete" /\ ~last.pre.in_transaction /\ ~last.raised /\ last.total >= 2
    /\ last.safe /\ ~last.force /\ last.answer = "no"
    /\ db = last.pre.db

----------------------------------------------------------------------------
(* C24: a delete called outside a transaction leaves the connection        *)
(* outside a transaction, whether it commits, is declined, removes         *)
(* nothing or is refused by the database.                                  *)
DeleteLeavesNoTransaction ==
    (last.op = "delete" /\ ~last.pre.in_transaction) => ~in_transaction

\* the database refused a deletion after the call had removed rows
DeleteLeavesNoTransactionWitness ==
    /\ last.op = "delete" /\ ~last.pre.in_transaction /\ last.raised
    /\ At(last.events, "delete") # {} /\ At(last.events, "refused") # {}
    /\ ~in_transaction

----------------------------------------------------------------------------
(* C25: when the target of a delete carries a restriction, the planning    *)
(* pass leaves every real table of the delete list with a non-empty        *)
(* restriction list, for every graph and every order of the descendants;   *)
(* and when the restriction selects no row of the target, no row of any    *)
(* table is removed.                                                       *)
RestrictedDeleteRestrictsAll ==
    (last.op = "delete" /\ last.restriction # <<>> /\ last.events # <<>>) =>
        /\ \A name \in Range(RealTables(last.delete_list)) : last.restrictions[name] # <<>>
        /\ (Restricted(last.pre.db[last.self], last.restriction) = {}
            /\ ~last.pre.in_transaction) =>
              /\ last.total = 0
              /\ db = last.pre.db

\* a restricted delete on the graph with a projection node removed rows of two
\* tables and left rows in both
RestrictedDeleteRestrictsAllWitness ==
    /\ last.op = "delete" /\ last.restriction # <<>> /\ ~last.raised
    /\ schema = 2 /\ last.self = tA /\ last.total >= 2
    /\ n1 \in Range(last.delete_list)
    /\ CommittedByCall(last.events)
    /\ db[tB] # {} /\ db[tA] # {}

----------------------------------------------------------------------------
(* C23: when the database refuses the k-th DROP of a drop that proceeds,   *)
(* the call raises; the tables taken before the k-th are dropped and stay  *)
(* dropped, with their rows; the k-th table and every table after it in    *)
(* the sequence still exist, with the rows they held.                      *)
FailedDropKeepsEarlierDrops ==
    (last.op = "drop" /\ last.proceed /\ last.fail_at > 0) =>
        LET k == last.fail_at
            before == { last.order[i] : i \in 1..(k - 1) }
        IN  /\ last.raised
            /\ Len(last.events) = k
            /\ \A i \in 1..(k - 1) : last.events[i] = Event("drop", last.order[i])
            /\ last.events[k] = Event("refused", last.order[k])
            /\ declared = last.declared \ before
            /\ \A t \in before : db[t] = {}
            /\ \A t \in Tables \ before : db[t] = last.pre.db[t]

\* the drop of the root of the diamond failed at its third table: two tables
\* are gone, one of them with a row
FailedDropKeepsEarlierDropsWitness ==
    /\ last.op = "drop" /\ last.proceed /\ last.raised
    /\ schema = 2 /\ last.self = tA /\ last.fail_at = 3
    /\ Cardinality(last.declared \ declared) = 2
    /\ \E t \in last.declared \ declared : last.pre.db[t] # {}
    /\ db[tA] # {}

----------------------------------------------------------------------------
====
